---- MODULE Spec2Model ----
(***************************************************************************)
(* Checkout / order-placement workflow of the TSR Fashion storefront:      *)
(* the checkout page (src/app/checkout/page.tsx), the signup route it      *)
(* calls, the browser's localStorage, and the order-tracking page with    *)
(* the order API it queries.                                               *)
(*                                                                         *)
(* Strings the code inspects character by character (email, phone,        *)
(* postal code, order number) are sequences of one-character strings;     *)
(* strings the code only measures or copies are TLA+ strings.             *)
(* Timestamps are integers (minutes).                                      *)
(***************************************************************************)
EXTENDS Integers, Sequences, FiniteSets, Bags, TLC

VARIABLES
    authStatus,       \* useState<AuthStatus>: "loading" | "guest" | "authenticated"
    currentUser,      \* useState<CurrentUser | null>
    step,             \* useState<CheckoutStep>: "address" | "payment"
    shippingDetails,  \* useState<CheckoutFormValues | null>
    selectedPayment,  \* useState<string>
    form,             \* react-hook-form field values (defaultValues / reset / typing)
    cart,             \* redux state.carts.cart (its items)
    route,            \* the page the router shows: "checkout" | "cart" | "tracking"
    trackId,          \* orderId query parameter of the last router.push to tracking
    emitted,          \* what the handler that ran last emitted: toast, console.error, field errors
    flights,          \* handleConfirmOrder invocations awaiting the signup fetch
    users,            \* server: prisma user table
    sessionUser,      \* server: user of the browser's session cookie, if any
    storedOrders,     \* localStorage[ORDER_STORAGE_KEY], parsed
    storedProfiles,   \* localStorage[PROFILE_STORAGE_KEY_PREFIX:userId], parsed
    localSession,     \* localStorage[AUTH_SESSION_KEY], parsed
    remoteOrders,     \* server: prisma order table
    clock,            \* wall clock (minutes)
    tStage,           \* order-tracking page: "off" | "effects" | "idle"
    tOrders,          \* order-tracking page: useState orders
    tSelected,        \* order-tracking page: useState selectedOrder
    tError,           \* order-tracking page: useState error
    tPending,         \* order-tracking page: lookups awaiting the remote fetch
    sessions,         \* server: prisma session table
    hashes,           \* server: passwordHash column of the user table, by user id
    tokensIssued,     \* server: how many session tokens randomUUID has produced
    authReply         \* the response of the auth route that answered last

vars == <<authStatus, currentUser, step, shippingDetails, selectedPayment, form,
          cart, route, trackId, emitted, flights, users, sessionUser,
          storedOrders, storedProfiles, localSession, remoteOrders, clock,
          tStage, tOrders, tSelected, tError, tPending,
          sessions, hashes, tokensIssued, authReply>>

checkoutVars == <<authStatus, currentUser, step, shippingDetails, selectedPayment,
                  form, cart, route, trackId, flights, storedOrders,
                  storedProfiles, localSession, clock>>

trackVars == <<tStage, tOrders, tSelected, tError, tPending>>

authVars == <<sessions, hashes, tokensIssued, authReply>>

\* undefined / null of a string-valued field
Null == "null"

\* undefined of a timestamp-valued field
NoDate == 0 - 1

\* null and non-null values of an object-valued state or result
None == <<>>

Some(v) == <<v>>

(***************************************************************************)
(* Bounds of the model.                                                    *)
(***************************************************************************)
MaxFlights == 2      \* confirmations that may await the signup fetch at once
MaxCartLen == 2      \* line items in a cart
MaxPending == 2      \* tracking lookups that may await the remote fetch at once
MaxTokens == 2       \* sessions the login route may create
MaxTicks == 2        \* session lifetimes that may pass

\* the wall clock when the model starts (minutes)
ClockStart == 100000

(***************************************************************************)
(* Characters.                                                             *)
(***************************************************************************)
DigitChars == {"0", "1", "2", "3", "4", "5", "6", "7", "8", "9"}

UpperLetters == <<"A","B","C","D","E","F","G","H","I","J","K","L","M",
                  "N","O","P","Q","R","S","T","U","V","W","X","Y","Z">>

LowerLetters == <<"a","b","c","d","e","f","g","h","i","j","k","l","m",
                  "n","o","p","q","r","s","t","u","v","w","x","y","z">>

LetterChars == {UpperLetters[i] : i \in 1..26} \cup {LowerLetters[i] : i \in 1..26}

\* String.prototype.toLowerCase, one character
LowerChar(c) ==
    IF \E i \in 1..26 : UpperLetters[i] = c
    THEN LowerLetters[CHOOSE i \in 1..26 : UpperLetters[i] = c]
    ELSE c

\* String.prototype.toLowerCase
ToLowerCase(s) == [i \in 1..Len(s) |-> LowerChar(s[i])]

AllIn(s, set) == \A i \in 1..Len(s) : s[i] \in set

\* decimal digits of a natural number, as `${n}` prints them
RECURSIVE NatToChars(_)
NatToChars(n) ==
    IF n < 10 THEN <<ToString(n)>>
    ELSE NatToChars(n \div 10) \o <<ToString(n % 10)>>

(***************************************************************************)
(* Form schemas (checkout/page.tsx 32-81).                                 *)
(***************************************************************************)
\* indices of the character c in s
Positions(s, c) == {i \in 1..Len(s) : s[i] = c}

\* z.string().email(): one "@", a non-empty local part, a dotted domain whose
\* last label has at least two letters
IsEmail(s) ==
    /\ Cardinality(Positions(s, "@")) = 1
    /\ LET at == CHOOSE i \in 1..Len(s) : s[i] = "@"
           dots == {i \in Positions(s, ".") : i > at}
       IN  /\ at > 1
           /\ AllIn(SubSeq(s, 1, at - 1), LetterChars \cup DigitChars \cup {".", "_", "+", "-"})
           /\ s[1] /= "."
           /\ s[at - 1] /= "."
           /\ dots /= {}
           /\ LET last == CHOOSE i \in dots : \A j \in dots : j <= i
              IN  /\ Len(s) - last >= 2
                  /\ AllIn(SubSeq(s, last + 1, Len(s)), LetterChars)
                  /\ \A i \in dots : i > at + 1 /\ (i - 1) \notin dots
                  /\ AllIn(SubSeq(s, at + 1, last - 1),
                           LetterChars \cup DigitChars \cup {".", "-"})

\* /^(?:\+?88)?01[3-9]\d{8}$/
PhonePattern(s) ==
    LET rest == IF Len(s) >= 3 /\ SubSeq(s, 1, 3) = <<"+", "8", "8">> THEN SubSeq(s, 4, Len(s))
                ELSE IF Len(s) >= 2 /\ SubSeq(s, 1, 2) = <<"8", "8">> THEN SubSeq(s, 3, Len(s))
                ELSE s
    IN  /\ Len(rest) = 11
        /\ rest[1] = "0"
        /\ rest[2] = "1"
        /\ rest[3] \in {"3", "4", "5", "6", "7", "8", "9"}
        /\ AllIn(SubSeq(rest, 4, 11), DigitChars)

PhoneOk(s) == Len(s) >= 11 /\ Len(s) <= 15 /\ PhonePattern(s)

PostalCodeOkLengthOnly(s) == Len(s) >= 4 /\ Len(s) <= 6

\* postalCode: min(4), max(6), /^[0-9]+$/
PostalCodeOk(s) == Len(s) >= 4 /\ Len(s) <= 6 /\ Len(s) >= 1 /\ AllIn(s, DigitChars)

baseCheckoutSchema(v) ==
    /\ Len(v.fullName) >= 1
    /\ Len(v.email) >= 1
    /\ IsEmail(v.email)
    /\ PhoneOk(v.phone)
    /\ Len(v.city) >= 1
    /\ PostalCodeOk(v.postalCode)
    /\ Len(v.addressLine1) >= 1

guestCheckoutSchemaNoMatch(v) ==
    /\ baseCheckoutSchema(v)
    /\ Len(v.password) >= 6
    /\ Len(v.confirmPassword) >= 6

guestCheckoutSchema(v) ==
    /\ baseCheckoutSchema(v)
    /\ Len(v.password) >= 6
    /\ Len(v.confirmPassword) >= 6
    /\ v.password = v.confirmPassword

authenticatedCheckoutSchema(v) == baseCheckoutSchema(v)

activeSchemaAlwaysAuthenticated(status, v) == authenticatedCheckoutSchema(v)

activeSchema(status, v) ==
    IF status = "authenticated" THEN authenticatedCheckoutSchema(v)
    ELSE guestCheckoutSchema(v)

\* useForm defaultValues
EmptyForm ==
    [fullName |-> "", email |-> <<>>, phone |-> <<>>, city |-> "",
     postalCode |-> <<>>, addressLine1 |-> "", apartment |-> "", roadNo |-> "",
     additionalInfo |-> "", password |-> "", confirmPassword |-> ""]

(***************************************************************************)
(* Payment methods (checkout/page.tsx 83-104).                             *)
(***************************************************************************)
paymentMethods ==
    << [id |-> "cod",   title |-> "Cash on Delivery"],
       [id |-> "bkash", title |-> "bKash"],
       [id |-> "nagad", title |-> "Nagad"],
       [id |-> "card",  title |-> "Credit / Debit Card"] >>

\* paymentMethods.find((m) => m.id === selectedPayment)?.title ?? "Cash on Delivery"
PaymentTitle(sel) ==
    IF \E i \in 1..Len(paymentMethods) : paymentMethods[i].id = sel
    THEN paymentMethods[CHOOSE i \in 1..Len(paymentMethods) :
                            /\ paymentMethods[i].id = sel
                            /\ \A j \in 1..(i - 1) : paymentMethods[j].id /= sel].title
    ELSE "Cash on Delivery"

(***************************************************************************)
(* Pricing (checkout/page.tsx 119-131, 438-440).                           *)
(***************************************************************************)
\* Math.round of the rational num/100: the nearest integer, ties upwards
RoundHundredths(num) == (num + 50) \div 100

Max(a, b) == IF a >= b THEN a ELSE b

getCartItemFinalPriceAmountFirst(item) ==
    IF item.discount.amount > 0
    THEN Max(item.price - item.discount.amount, 0)
    ELSE IF item.discount.percentage > 0
    THEN RoundHundredths(100 * item.price - item.price * item.discount.percentage)
    ELSE item.price

getCartItemFinalPrice(item) ==
    IF item.discount.percentage > 0
    THEN RoundHundredths(100 * item.price - item.price * item.discount.percentage)
    ELSE IF item.discount.amount > 0
    THEN Max(item.price - item.discount.amount, 0)
    ELSE item.price

\* cart.items.reduce((total, item) => total + getCartItemFinalPrice(item) * item.quantity, 0)
RECURSIVE TotalAmount(_)
TotalAmount(items) ==
    IF items = <<>> THEN 0
    ELSE TotalAmount(SubSeq(items, 1, Len(items) - 1))
         + getCartItemFinalPrice(items[Len(items)]) * items[Len(items)].quantity

\* cart.totalQuantities, which the cart slice keeps equal to the sum of the quantities
RECURSIVE TotalQuantities(_)
TotalQuantities(items) ==
    IF items = <<>> THEN 0
    ELSE TotalQuantities(Tail(items)) + Head(items).quantity

\* the cart after dispatch(clearCart())
ClearedCart == <<>>

(***************************************************************************)
(* Order builder (checkout/page.tsx 431-502).  Time is counted in minutes  *)
(* since 2024-08-01T00:00+06:00.                                            *)
(***************************************************************************)
ORDER_ESTIMATED_DELIVERY_DAYS == 4

MinutesPerDay == 1440

OrderPrefix == <<"T", "S", "R", "-">>

\* `TSR-${Math.floor(100000 + Math.random() * 900000)}`, draw = floor(random * 900000)
generateOrderId(draw) == OrderPrefix \o NatToChars(100000 + draw)

\* value && value.trim().length > 0, on the strings the model uses
NonBlank(s) == s /= Null /\ s \notin {"", " ", "  "}

\* [apartment, roadNo].filter(nonblank).join(", ")
AddressLine2(sd) ==
    IF NonBlank(sd.apartment) /\ NonBlank(sd.roadNo) THEN sd.apartment \o ", " \o sd.roadNo
    ELSE IF NonBlank(sd.apartment) THEN sd.apartment
    ELSE IF NonBlank(sd.roadNo) THEN sd.roadNo
    ELSE ""

InitialStatusHistoryOnlyPlaced(placedOn) ==
    << [id |-> "placed", title |-> "Order Placed", date |-> placedOn, isCompleted |-> TRUE],
       [id |-> "processing", title |-> "Processing", date |-> placedOn, isCompleted |-> FALSE],
       [id |-> "shipped", title |-> "Shipped", date |-> NoDate, isCompleted |-> FALSE],
       [id |-> "out-for-delivery", title |-> "Out for Delivery", date |-> NoDate,
        isCompleted |-> FALSE],
       [id |-> "delivered", title |-> "Delivered", date |-> NoDate, isCompleted |-> FALSE] >>

InitialStatusHistory(placedOn) ==
    << [id |-> "placed", title |-> "Order Placed", date |-> placedOn, isCompleted |-> TRUE],
       [id |-> "processing", title |-> "Processing", date |-> placedOn, isCompleted |-> TRUE],
       [id |-> "shipped", title |-> "Shipped", date |-> NoDate, isCompleted |-> FALSE],
       [id |-> "out-for-delivery", title |-> "Out for Delivery", date |-> NoDate,
        isCompleted |-> FALSE],
       [id |-> "delivered", title |-> "Delivered", date |-> NoDate, isCompleted |-> FALSE] >>

BuildOrder(sd, pay, items, now, draw) ==
    [id |-> generateOrderId(draw),
     placedOn |-> now,
     totalAmount |-> TotalAmount(items),
     itemsCount |-> TotalQuantities(items),
     status |-> "processing",
     paymentMethod |-> PaymentTitle(pay),
     estimatedDelivery |-> now + ORDER_ESTIMATED_DELIVERY_DAYS * MinutesPerDay,
     notes |-> sd.additionalInfo,
     shippingAddress |->
        [name |-> sd.fullName,
         phone |-> sd.phone,
         addressLine1 |-> sd.addressLine1,
         addressLine2 |-> IF Len(AddressLine2(sd)) > 0 THEN AddressLine2(sd) ELSE Null,
         city |-> sd.city,
         postalCode |-> sd.postalCode],
     statusHistory |-> InitialStatusHistory(now)]

ProfileOfWholeForm(sd, now) == [data |-> sd, updatedAt |-> now]

\* the profile record onSubmit and handleConfirmOrder hand to setStoredProfile
ProfileOf(sd, now) ==
    [data |-> [fullName |-> sd.fullName, email |-> sd.email, phone |-> sd.phone,
               city |-> sd.city, postalCode |-> sd.postalCode,
               addressLine1 |-> sd.addressLine1, apartment |-> sd.apartment,
               roadNo |-> sd.roadNo, additionalInfo |-> sd.additionalInfo],
     updatedAt |-> now]

(***************************************************************************)
(* Sample orders (lib/data/orders).                                        *)
(***************************************************************************)
sampleOrders ==
    << [id |-> OrderPrefix \o <<"1", "0", "5", "2", "8", "4">>,
        placedOn |-> 74070,
        totalAmount |-> 420,
        itemsCount |-> 3,
        status |-> "shipped",
        paymentMethod |-> "Cash on Delivery",
        estimatedDelivery |-> 82080,
        notes |-> "Leave with the security guard if no one answers.",
        shippingAddress |->
           [name |-> "Nadia Rahman",
            phone |-> <<"+", "8", "8", "0", "1", "7", "1", "2", "3", "4", "5", "6", "7", "8">>,
            addressLine1 |-> "House 12, Road 7",
            addressLine2 |-> "Dhanmondi",
            city |-> "Dhaka",
            postalCode |-> <<"1", "2", "0", "5">>],
        statusHistory |->
           << [id |-> "placed", title |-> "Order Placed", date |-> 74070, isCompleted |-> TRUE],
              [id |-> "processing", title |-> "Processing", date |-> 75720, isCompleted |-> TRUE],
              [id |-> "shipped", title |-> "Shipped", date |-> 78315, isCompleted |-> TRUE],
              [id |-> "out-for-delivery", title |-> "Out for Delivery", date |-> NoDate,
               isCompleted |-> FALSE],
              [id |-> "delivered", title |-> "Delivered", date |-> NoDate,
               isCompleted |-> FALSE] >>],
       [id |-> OrderPrefix \o <<"2", "0", "8", "6", "1", "1">>,
        placedOn |-> 19445,
        totalAmount |-> 285,
        itemsCount |-> 2,
        status |-> "delivered",
        paymentMethod |-> "bKash",
        estimatedDelivery |-> 24480,
        notes |-> "Call before delivery after 5 PM.",
        shippingAddress |->
           [name |-> "Arman Hossain",
            phone |-> <<"+", "8", "8", "0", "1", "9", "1", "1", "2", "2", "3", "3", "4", "4">>,
            addressLine1 |-> "Flat B2, Building 23",
            addressLine2 |-> "Agrabad Commercial Area",
            city |-> "Chattogram",
            postalCode |-> <<"4", "0", "0", "0">>],
        statusHistory |->
           << [id |-> "placed", title |-> "Order Placed", date |-> 19445, isCompleted |-> TRUE],
              [id |-> "processing", title |-> "Processing", date |-> 20720, isCompleted |-> TRUE],
              [id |-> "shipped", title |-> "Shipped", date |-> 22125, isCompleted |-> TRUE],
              [id |-> "out-for-delivery", title |-> "Out for Delivery", date |-> 23650,
               isCompleted |-> TRUE],
              [id |-> "delivered", title |-> "Delivered", date |-> 24040,
               isCompleted |-> TRUE] >>] >>

(***************************************************************************)
(* Order tracking helpers (order-tracking/page.tsx 41-72, 135-137).        *)
(***************************************************************************)
MapSetKeepFirst(m, order) ==
    IF \E i \in 1..Len(m) : m[i].id = order.id THEN m ELSE Append(m, order)

\* Map.prototype.set keyed by order.id: a known key keeps its place, takes the value
MapSet(m, order) ==
    IF \E i \in 1..Len(m) : m[i].id = order.id
    THEN [i \in 1..Len(m) |-> IF m[i].id = order.id THEN order ELSE m[i]]
    ELSE Append(m, order)

RECURSIVE MapOf(_)
MapOf(list) ==
    IF list = <<>> THEN <<>>
    ELSE MapSet(MapOf(SubSeq(list, 1, Len(list) - 1)), list[Len(list)])

\* stable insertion into a list sorted by placedOn descending
InsertDesc(sorted, order) ==
    LET k == Cardinality({i \in 1..Len(sorted) : sorted[i].placedOn >= order.placedOn})
    IN  SubSeq(sorted, 1, k) \o <<order>> \o SubSeq(sorted, k + 1, Len(sorted))

\* Array.prototype.sort((a, b) => time(b.placedOn) - time(a.placedOn)), stable
RECURSIVE SortDesc(_)
SortDesc(list) ==
    IF list = <<>> THEN <<>>
    ELSE InsertDesc(SortDesc(SubSeq(list, 1, Len(list) - 1)), list[Len(list)])

mergeOrders(baseOrders, stored) == SortDesc(MapOf(baseOrders \o stored))

\* orders.find((o) => o.id.toLowerCase() === trimmed.toLowerCase())
FindOrder(list, id) ==
    LET hits == {i \in 1..Len(list) : ToLowerCase(list[i].id) = ToLowerCase(id)}
    IN  IF hits = {} THEN None
        ELSE Some(list[CHOOSE i \in hits : \A j \in hits : i <= j])

(***************************************************************************)
(* Sessions and password hashes (lib/auth.ts, bcryptjs).                   *)
(***************************************************************************)
\* SESSION_TTL_MS, in minutes
SESSION_TTL == 7 * 24 * 60

\* a request without the session cookie
NoToken == 0

\* bcrypt.hash(password, rounds): a salted hash, which compare matches with
\* the password it was made from and with no other
bcryptHash(password) == <<"bcrypt", password>>

\* bcrypt.compare(password, hash)
bcryptCompare(password, hash) == hash = bcryptHash(password)

\* the row createSession(userId) inserts; token is the randomUUID it draws
createSession(token, userId, now) ==
    [token |-> token, userId |-> userId, expiresAt |-> now + SESSION_TTL]

\* a response of an auth route: the route, its status, the user it names, the
\* token of the session cookie it sets, and whether it deletes the session cookie
Reply(path, status, userId, token, cookie) ==
    [path |-> path, status |-> status, userId |-> userId, token |-> token,
     cookie |-> cookie]

NoReply == Reply("none", 0, 0, NoToken, "kept")

(***************************************************************************)
(* Inputs: what the user types, what the cart holds, what Math.random      *)
(* draws.                                                                  *)
(***************************************************************************)
EmailA == <<"a", "@", "x", ".", "i", "o">>
EmailB == <<"b", "@", "x", ".", "i", "o">>
EmailN == <<"n", "@", "x", ".", "i", "o">>

PhoneN == <<"0", "1", "7", "1", "2", "3", "4", "5", "6", "7", "8">>

GoodForm(email) ==
    [fullName |-> "Nadia", email |-> email, phone |-> PhoneN, city |-> "Dhaka",
     postalCode |-> <<"1", "2", "0", "5">>, addressLine1 |-> "House 12",
     apartment |-> "4B", roadNo |-> "", additionalInfo |-> "",
     password |-> "secret1", confirmPassword |-> "secret1"]

FormInputs ==
    { GoodForm(EmailA), GoodForm(EmailB),
      [GoodForm(EmailN) EXCEPT !.password = "abc", !.confirmPassword = "abc"] }

PaymentInputs == {"bkash"}

Item(price, percentage, amount, quantity) ==
    [price |-> price, discount |-> [amount |-> amount, percentage |-> percentage],
     quantity |-> quantity]

CartInputs ==
    { <<>>,
      <<Item(100, 20, 0, 2), Item(15, 5, 5, 1)>> }

\* floor(Math.random() * 900000)
RandomDraws == {0, 5284}

\* the account that exists before the session starts
UserN == [id |-> 1, email |-> EmailN, fullName |-> "Nadia", phone |-> PhoneN]

\* a handler that shows no toast, logs nothing and sets no field error
Quiet == [toast |-> "none", log |-> "none", fieldErrors |-> FALSE]

Toast(message) == [toast |-> message, log |-> "none", fieldErrors |-> FALSE]

Logged(message, text) == [toast |-> message, log |-> text, fieldErrors |-> FALSE]

(***************************************************************************)
(* Initial state: the checkout page is mounted and GET /api/auth/me is in  *)
(* flight; the browser may or may not carry a session of the existing      *)
(* account.                                                                 *)
(***************************************************************************)
Init ==
    /\ authStatus = "loading"
    /\ currentUser = None
    /\ step = "address"
    /\ shippingDetails = None
    /\ selectedPayment = ""
    /\ form = EmptyForm
    /\ cart \in CartInputs
    /\ route = "checkout"
    /\ trackId = <<>>
    /\ emitted = Quiet
    /\ flights = EmptyBag
    /\ users = {UserN}
    /\ sessionUser \in {None, Some(UserN)}
    /\ storedOrders = <<>>
    /\ storedProfiles = [id \in {} |-> None]
    /\ localSession = None
    /\ remoteOrders = {}
    /\ clock = 100000
    /\ tStage = "off"
    /\ tOrders = sampleOrders
    /\ tSelected = None
    /\ tError = "none"
    /\ tPending = EmptyBag
    /\ sessions = IF sessionUser = None THEN {}
                  ELSE {createSession(1, Head(sessionUser).id, clock)}
    /\ hashes = (UserN.id :> bcryptHash("secret1"))
    /\ tokensIssued = Cardinality(sessions)
    /\ authReply = NoReply

(***************************************************************************)
(* localStorage helpers (lib/profile-storage).                             *)
(***************************************************************************)
setStoredProfileSharedKey(profiles, userId, value) ==
    [id \in DOMAIN profiles \cup {0} |-> IF id = 0 THEN Some(value) ELSE profiles[id]]

\* setStoredProfile(userId, value)
setStoredProfile(profiles, userId, value) ==
    [id \in DOMAIN profiles \cup {userId} |->
        IF id = userId THEN Some(value) ELSE profiles[id]]

getStoredProfileNever(profiles, userId) == None

\* getStoredProfile(userId)
getStoredProfile(profiles, userId) ==
    IF userId \in DOMAIN profiles THEN profiles[userId] ELSE None

\* the record written under AUTH_SESSION_KEY
SessionRecord(user) ==
    [id |-> user.id, email |-> user.email, fullName |-> user.fullName,
     phone |-> user.phone]

(***************************************************************************)
(* Actor resolution: fetchCurrentUser (checkout/page.tsx 208-274).         *)
(***************************************************************************)
\* value ?? "" for an optional text field
OrEmpty(value) == IF value = Null THEN "" ELSE value

\* reset(...) after a successful GET /api/auth/me
PrefilledForm(user, stored) ==
    IF stored = None
    THEN [EmptyForm EXCEPT !.fullName = user.fullName, !.email = user.email,
                           !.phone = user.phone]
    ELSE LET d == Head(stored).data
         IN  [fullName |-> d.fullName, email |-> user.email, phone |-> d.phone,
              city |-> d.city, postalCode |-> d.postalCode,
              addressLine1 |-> d.addressLine1, apartment |-> OrEmpty(d.apartment),
              roadNo |-> OrEmpty(d.roadNo),
              additionalInfo |-> OrEmpty(d.additionalInfo),
              password |-> "", confirmPassword |-> ""]

FetchCurrentUserOk ==
    /\ route = "checkout"
    /\ authStatus = "loading"
    /\ sessionUser /= None
    /\ LET user == Head(sessionUser)
       IN  /\ authStatus' = "authenticated"
           /\ currentUser' = Some(user)
           /\ localSession' = Some(SessionRecord(user))
           /\ form' = PrefilledForm(user, getStoredProfile(storedProfiles, user.id))
    /\ emitted' = Quiet
    /\ UNCHANGED <<step, shippingDetails, selectedPayment, cart, route, trackId,
                   flights, users, sessionUser, storedOrders, storedProfiles,
                   remoteOrders, clock>>
    /\ UNCHANGED trackVars
    /\ UNCHANGED authVars

\* the response is not OK (401 without a valid session, or a server error)
FetchCurrentUserNotOk ==
    /\ route = "checkout"
    /\ authStatus = "loading"
    /\ authStatus' = "guest"
    /\ currentUser' = None
    /\ form' = EmptyForm
    /\ emitted' = Quiet
    /\ UNCHANGED <<step, shippingDetails, selectedPayment, cart, route, trackId,
                   flights, users, sessionUser, storedOrders, storedProfiles,
                   localSession, remoteOrders, clock>>
    /\ UNCHANGED trackVars
    /\ UNCHANGED authVars

\* fetch rejects with something other than an AbortError
FetchCurrentUserThrows ==
    /\ route = "checkout"
    /\ authStatus = "loading"
    /\ authStatus' = "guest"
    /\ currentUser' = None
    /\ emitted' = Logged("none", "Failed to fetch current user")
    /\ UNCHANGED <<step, shippingDetails, selectedPayment, form, cart, route, trackId,
                   flights, users, sessionUser, storedOrders, storedProfiles,
                   localSession, remoteOrders, clock>>
    /\ UNCHANGED trackVars
    /\ UNCHANGED authVars

(***************************************************************************)
(* Address step (checkout/page.tsx 283-308, 613-975).                      *)
(***************************************************************************)
AddressFormShown == route = "checkout" /\ authStatus /= "loading" /\ step = "address"

PaymentStepShown ==
    route = "checkout" /\ authStatus /= "loading" /\ step = "payment"
    /\ shippingDetails /= None

SubmitValidNoSnapshot(values) ==
    /\ AddressFormShown
    /\ activeSchema(authStatus, values)
    /\ form' = values
    /\ step' = "payment"
    /\ emitted' = Quiet
    /\ UNCHANGED <<authStatus, currentUser, shippingDetails, selectedPayment, cart,
                   route, trackId, flights, users, sessionUser, storedOrders,
                   storedProfiles, localSession, remoteOrders, clock>>
    /\ UNCHANGED trackVars
    /\ UNCHANGED authVars

\* handleSubmit(onSubmit) with values that pass the resolver
SubmitValid(values) ==
    /\ AddressFormShown
    /\ activeSchema(authStatus, values)
    /\ form' = values
    /\ shippingDetails' = Some(values)
    /\ storedProfiles' =
          IF authStatus = "authenticated" /\ currentUser /= None
          THEN setStoredProfile(storedProfiles, Head(currentUser).id,
                                ProfileOf(values, clock))
          ELSE storedProfiles
    /\ step' = "payment"
    /\ emitted' = Quiet
    /\ UNCHANGED <<authStatus, currentUser, selectedPayment, cart, route, trackId,
                   flights, users, sessionUser, storedOrders, localSession,
                   remoteOrders, clock>>
    /\ UNCHANGED trackVars
    /\ UNCHANGED authVars

\* handleSubmit with values the resolver rejects: onSubmit is not called
SubmitInvalid(values) ==
    /\ AddressFormShown
    /\ ~activeSchema(authStatus, values)
    /\ form' = values
    /\ emitted' = [Quiet EXCEPT !.fieldErrors = TRUE]
    /\ UNCHANGED <<authStatus, currentUser, step, shippingDetails, selectedPayment,
                   cart, route, trackId, flights, users, sessionUser, storedOrders,
                   storedProfiles, localSession, remoteOrders, clock>>
    /\ UNCHANGED trackVars
    /\ UNCHANGED authVars

EditDiscardsDetails ==
    /\ PaymentStepShown
    /\ step' = "address"
    /\ shippingDetails' = None
    /\ emitted' = Quiet
    /\ UNCHANGED <<authStatus, currentUser, selectedPayment, form,
                   cart, route, trackId, flights, users, sessionUser, storedOrders,
                   storedProfiles, localSession, remoteOrders, clock>>
    /\ UNCHANGED trackVars
    /\ UNCHANGED authVars

\* the two Edit buttons
Edit ==
    /\ PaymentStepShown
    /\ step' = "address"
    /\ emitted' = Quiet
    /\ UNCHANGED <<authStatus, currentUser, shippingDetails, selectedPayment, form,
                   cart, route, trackId, flights, users, sessionUser, storedOrders,
                   storedProfiles, localSession, remoteOrders, clock>>
    /\ UNCHANGED trackVars
    /\ UNCHANGED authVars

\* a payment method button
SelectPayment(method) ==
    /\ PaymentStepShown
    /\ selectedPayment' = method
    /\ emitted' = Quiet
    /\ UNCHANGED <<authStatus, currentUser, step, shippingDetails, form, cart, route,
                   trackId, flights, users, sessionUser, storedOrders, storedProfiles,
                   localSession, remoteOrders, clock>>
    /\ UNCHANGED trackVars
    /\ UNCHANGED authVars

(***************************************************************************)
(* Confirmation: handleConfirmOrder (checkout/page.tsx 310-521).           *)
(***************************************************************************)
\* the three guards, in the order the handler tests them (310-326)
ConfirmGuardNoPaymentCheck(sd, pay, items) ==
    IF sd = None THEN "details"
    ELSE IF Len(items) = 0 THEN "cart"
    ELSE "pass"

ConfirmGuardCartSilent(sd, pay, items) ==
    IF sd = None THEN "details"
    ELSE IF pay = "" THEN "payment"
    ELSE IF Len(items) = 0 THEN "payment"
    ELSE "pass"

ConfirmGuard(sd, pay, items) ==
    IF sd = None THEN "details"
    ELSE IF pay = "" THEN "payment"
    ELSE IF Len(items) = 0 THEN "cart"
    ELSE "pass"

\* lines 431-520: build the order, try to persist it, clear the cart, redirect.
\* writeOk is whether the localStorage read/parse/write of 505-511 completes.
FinishOrder(sd, pay, items, draw, writeOk) ==
    LET order == BuildOrder(sd, pay, items, clock, draw)
    IN  /\ storedOrders' = IF writeOk THEN Append(storedOrders, order) ELSE storedOrders
        /\ cart' = ClearedCart
        /\ emitted' = Logged("Order confirmed", IF writeOk THEN "none"
                                                 ELSE "Failed to persist order")
        /\ selectedPayment' = ""
        /\ route' = "tracking"
        /\ trackId' = order.id
        /\ clock' = clock + 1

\* a click on "Confirm order": everything the handler does before its first await
ConfirmOrder ==
    /\ PaymentStepShown
    /\ LET guard == ConfirmGuard(shippingDetails, selectedPayment, cart)
       IN
       IF guard = "details" THEN
            /\ step' = "address"
            /\ emitted' = Toast("Please provide delivery details before confirming.")
            /\ UNCHANGED <<authStatus, currentUser, shippingDetails, selectedPayment,
                           form, cart, route, trackId, flights, storedOrders,
                           storedProfiles, localSession, clock>>
       ELSE IF guard = "payment" THEN
            /\ emitted' = Toast("Select a payment method to continue.")
            /\ UNCHANGED checkoutVars
       ELSE IF guard = "cart" THEN
            /\ emitted' = Toast("Your cart is empty.")
            /\ route' = "cart"
            /\ UNCHANGED <<authStatus, currentUser, step, shippingDetails,
                           selectedPayment, form, cart, trackId, flights,
                           storedOrders, storedProfiles, localSession, clock>>
       ELSE IF authStatus = "guest" THEN
            LET sd == Head(shippingDetails)
            IN  IF sd.password = "" \/ sd.confirmPassword = "" THEN
                    /\ step' = "address"
                    /\ emitted' = Toast("Create a password to continue.")
                    /\ UNCHANGED <<authStatus, currentUser, shippingDetails,
                                   selectedPayment, form, cart, route, trackId,
                                   flights, storedOrders, storedProfiles,
                                   localSession, clock>>
                ELSE
                    /\ BagCardinality(flights) < MaxFlights
                    /\ flights' = flights (+) SetToBag(
                          {[sd |-> sd, pay |-> selectedPayment, items |-> cart,
                            pc |-> "sent", status |-> 0, user |-> None]})
                    /\ emitted' = Quiet
                    /\ UNCHANGED <<authStatus, currentUser, step, shippingDetails,
                                   selectedPayment, form, cart, route, trackId,
                                   storedOrders, storedProfiles, localSession, clock>>
       ELSE
            /\ storedProfiles' =
                  IF authStatus = "authenticated" /\ currentUser /= None
                  THEN setStoredProfile(storedProfiles, Head(currentUser).id,
                                        ProfileOf(Head(shippingDetails), clock))
                  ELSE storedProfiles
            /\ \E draw \in RandomDraws, writeOk \in BOOLEAN :
                  FinishOrder(Head(shippingDetails), selectedPayment, cart, draw, writeOk)
            /\ UNCHANGED <<authStatus, currentUser, step, shippingDetails, form,
                           flights, localSession>>
    /\ UNCHANGED <<users, sessionUser, remoteOrders>>
    /\ UNCHANGED trackVars
    /\ UNCHANGED authVars

(***************************************************************************)
(* Signup route: POST /api/auth/signup.                                    *)
(***************************************************************************)
\* signupSchema.safeParse(body).success
signupSchema(body) ==
    /\ Len(body.fullName) >= 1
    /\ IsEmail(body.email)
    /\ Len(body.phone) >= 6
    /\ Len(body.phone) <= 20
    /\ Len(body.password) >= 6

\* the request body handleConfirmOrder sends (checkout/page.tsx 341-346)
SignupBody(sd) ==
    [fullName |-> sd.fullName, email |-> sd.email, phone |-> sd.phone,
     password |-> sd.password]

\* prisma.user.findUnique({ where: { email } }) finds a row
UserExists(email) == \E u \in users : u.email = email

\* one element less, one element more in a bag
Without(bag, e) == bag (-) SetToBag({e})

With(bag, e) == bag (+) SetToBag({e})

Respond(f, status, user) ==
    flights' = With(Without(flights, f),
                    [f EXCEPT !.pc = "responded", !.status = status, !.user = user])

serverFrame ==
    /\ UNCHANGED <<authStatus, currentUser, step, shippingDetails, selectedPayment,
                   form, cart, route, trackId, sessionUser, storedOrders,
                   storedProfiles, localSession, remoteOrders, clock>>
    /\ UNCHANGED trackVars
    /\ UNCHANGED <<sessions, tokensIssued, authReply>>

\* the route up to the existence check: parse, validate, findUnique
SignupCheck(f) ==
    /\ BagIn(f, flights)
    /\ f.pc = "sent"
    /\ LET body == SignupBody(f.sd)
           email == ToLowerCase(body.email)
       IN  IF ~signupSchema(body) THEN Respond(f, 400, None)
           ELSE IF UserExists(email) THEN Respond(f, 409, None)
           ELSE flights' = With(Without(flights, f), [f EXCEPT !.pc = "checked"])
    /\ UNCHANGED <<users, hashes, emitted>>
    /\ serverFrame

SignupCreateNoUniqueIndex(f) ==
    /\ BagIn(f, flights)
    /\ f.pc = "checked"
    /\ LET body == SignupBody(f.sd)
           email == ToLowerCase(body.email)
           user == [id |-> Cardinality(users) + 1, email |-> email,
                    fullName |-> body.fullName, phone |-> body.phone]
       IN  /\ Respond(f, 201, Some(user))
           /\ users' = users \cup {user}
           /\ hashes' = (user.id :> bcryptHash(body.password)) @@ hashes
    /\ UNCHANGED emitted
    /\ serverFrame

\* the route after the existence check: hash, prisma.user.create; the unique
\* index on email makes create throw for a taken address, which the route's
\* catch answers with 500
SignupCreate(f) ==
    /\ BagIn(f, flights)
    /\ f.pc = "checked"
    /\ LET body == SignupBody(f.sd)
           email == ToLowerCase(body.email)
           user == [id |-> Cardinality(users) + 1, email |-> email,
                    fullName |-> body.fullName, phone |-> body.phone]
       IN  IF UserExists(email)
           THEN Respond(f, 500, None) /\ UNCHANGED <<users, hashes>>
           ELSE /\ Respond(f, 201, Some(user))
                /\ users' = users \cup {user}
                /\ hashes' = (user.id :> bcryptHash(body.password)) @@ hashes
    /\ UNCHANGED emitted
    /\ serverFrame

(***************************************************************************)
(* handleConfirmOrder after the signup fetch (checkout/page.tsx 349-410).  *)
(***************************************************************************)
\* the response is not OK: toast, back to the address step, return
SignupRejectedFallsThrough(f) ==
    /\ BagIn(f, flights)
    /\ f.pc = "responded"
    /\ f.status /= 201
    /\ flights' = Without(flights, f)
    /\ step' = "address"
    /\ \E draw \in RandomDraws :
          FinishOrder(f.sd, f.pay, f.items, draw, TRUE)
    /\ UNCHANGED <<authStatus, currentUser, shippingDetails, form, users,
                   sessionUser, storedProfiles, localSession, remoteOrders>>
    /\ UNCHANGED trackVars
    /\ UNCHANGED authVars

SignupRejected(f) ==
    /\ BagIn(f, flights)
    /\ f.pc = "responded"
    /\ f.status /= 201
    /\ flights' = Without(flights, f)
    /\ step' = "address"
    /\ emitted' = Toast("We couldn't create your account.")
    /\ UNCHANGED <<authStatus, currentUser, shippingDetails, selectedPayment, form,
                   cart, route, trackId, users, sessionUser, storedOrders,
                   storedProfiles, localSession, remoteOrders, clock>>
    /\ UNCHANGED trackVars
    /\ UNCHANGED authVars

SignupThrowsFallsThrough(f) ==
    /\ BagIn(f, flights)
    /\ f.pc \in {"sent", "responded"}
    /\ flights' = Without(flights, f)
    /\ step' = "address"
    /\ \E draw \in RandomDraws :
          FinishOrder(f.sd, f.pay, f.items, draw, TRUE)
    /\ UNCHANGED <<authStatus, currentUser, shippingDetails, form, users,
                   sessionUser, storedProfiles, localSession, remoteOrders>>
    /\ UNCHANGED trackVars
    /\ UNCHANGED authVars

\* fetch rejects (the request or its response is lost): the catch of 405-410
SignupThrows(f) ==
    /\ BagIn(f, flights)
    /\ f.pc \in {"sent", "responded"}
    /\ flights' = Without(flights, f)
    /\ step' = "address"
    /\ emitted' = Logged("We couldn't create your account.",
                         "Failed to sign up during checkout")
    /\ UNCHANGED <<authStatus, currentUser, shippingDetails, selectedPayment, form,
                   cart, route, trackId, users, sessionUser, storedOrders,
                   storedProfiles, localSession, remoteOrders, clock>>
    /\ UNCHANGED trackVars
    /\ UNCHANGED authVars

\* the response is 201 with the new user: adopt the identity, store the profile,
\* blank the passwords of the snapshot, then build and persist the order from
\* the values the handler captured when it was clicked
SignupAccepted(f) ==
    /\ BagIn(f, flights)
    /\ f.pc = "responded"
    /\ f.status = 201
    /\ LET user == Head(f.user)
       IN  /\ authStatus' = "authenticated"
           /\ currentUser' = Some(user)
           /\ localSession' = Some(SessionRecord(user))
           /\ storedProfiles' = setStoredProfile(storedProfiles, user.id,
                                                 ProfileOf(f.sd, clock))
           /\ shippingDetails' = Some([f.sd EXCEPT !.password = "",
                                                   !.confirmPassword = ""])
           /\ \E draw \in RandomDraws, writeOk \in BOOLEAN :
                 FinishOrder(f.sd, f.pay, f.items, draw, writeOk)
    /\ flights' = Without(flights, f)
    /\ UNCHANGED <<step, form, users, sessionUser, remoteOrders>>
    /\ UNCHANGED trackVars
    /\ UNCHANGED authVars

(***************************************************************************)
(* Authentication: getCurrentUser / requireCurrentUser (lib/auth.ts),      *)
(* GET /api/auth/me, POST /api/auth/login, PATCH /api/auth/password.       *)
(* A request carries whatever session cookie its client sends; each        *)
(* request is handled as one step.                                          *)
(***************************************************************************)
\* prisma.session.findUnique({ where: { token } })
FindSession(rows, token) ==
    IF \E s \in rows : s.token = token
    THEN Some(CHOOSE s \in rows : s.token = token)
    ELSE None

getCurrentUserIgnoresExpiry(token) ==
    LET session == FindSession(sessions, token)
    IN  IF token = NoToken \/ session = None
        THEN [user |-> None, rows |-> sessions, cookie |-> "kept"]
        ELSE [user |-> Some(Head(session).userId), rows |-> sessions, cookie |-> "kept"]

\* getCurrentUser(): the user id it returns, the session table it leaves, and
\* what it does to the cookie
getCurrentUser(token) ==
    LET session == FindSession(sessions, token)
    IN  IF token = NoToken
        THEN [user |-> None, rows |-> sessions, cookie |-> "kept"]
        ELSE IF session = None
        THEN [user |-> None, rows |-> sessions, cookie |-> "deleted"]
        ELSE IF Head(session).expiresAt < clock
        THEN [user |-> None, rows |-> sessions \ {Head(session)}, cookie |-> "deleted"]
        ELSE [user |-> Some(Head(session).userId), rows |-> sessions, cookie |-> "kept"]

authFrame ==
    /\ UNCHANGED checkoutVars
    /\ UNCHANGED <<emitted, users, sessionUser, remoteOrders>>
    /\ UNCHANGED trackVars

\* GET /api/auth/me
GetMe(token) ==
    /\ LET found == getCurrentUser(token)
       IN  /\ sessions' = found.rows
           /\ authReply' = IF found.user = None
                           THEN Reply("me", 401, 0, NoToken, found.cookie)
                           ELSE Reply("me", 200, Head(found.user), NoToken, found.cookie)
    /\ UNCHANGED <<hashes, tokensIssued>>
    /\ authFrame

\* loginSchema.safeParse(body).success
loginSchema(body) == IsEmail(body.email) /\ Len(body.password) >= 6

\* POST /api/auth/login
Login(body) ==
    /\ LET email == ToLowerCase(body.email)
       IN  IF ~loginSchema(body) THEN
               /\ authReply' = Reply("login", 400, 0, NoToken, "kept")
               /\ UNCHANGED <<sessions, tokensIssued>>
           ELSE IF ~UserExists(email) THEN
               /\ authReply' = Reply("login", 401, 0, NoToken, "kept")
               /\ UNCHANGED <<sessions, tokensIssued>>
           ELSE LET user == CHOOSE u \in users : u.email = email
                IN  IF ~bcryptCompare(body.password, hashes[user.id]) THEN
                        /\ authReply' = Reply("login", 401, 0, NoToken, "kept")
                        /\ UNCHANGED <<sessions, tokensIssued>>
                    ELSE
                        /\ tokensIssued < MaxTokens
                        /\ tokensIssued' = tokensIssued + 1
                        /\ sessions' = sessions \cup
                              {createSession(tokensIssued', user.id, clock)}
                        /\ authReply' = Reply("login", 200, user.id, tokensIssued', "set")
    /\ UNCHANGED hashes
    /\ authFrame

\* passwordSchema.safeParse(body).success
passwordSchema(body) ==
    /\ Len(body.currentPassword) >= 1
    /\ Len(body.newPassword) >= 6
    /\ Len(body.confirmPassword) >= 6
    /\ body.newPassword = body.confirmPassword

deleteOtherSessionsAll(rows, userId, currentToken) ==
    {s \in rows : s.userId /= userId}

\* prisma.session.deleteMany({ where: { userId, NOT: { token: currentToken } } })
deleteOtherSessions(rows, userId, currentToken) ==
    IF currentToken /= NoToken
    THEN {s \in rows : ~(s.userId = userId /\ s.token /= currentToken)}
    ELSE {s \in rows : s.userId /= userId}

\* PATCH /api/auth/password
ChangePassword(token, body) ==
    /\ LET found == getCurrentUser(token)
       IN  IF found.user = None THEN
               /\ sessions' = found.rows
               /\ authReply' = Reply("password", 401, 0, NoToken, found.cookie)
               /\ UNCHANGED hashes
           ELSE IF ~passwordSchema(body) THEN
               /\ authReply' = Reply("password", 400, Head(found.user), NoToken, "kept")
               /\ UNCHANGED <<sessions, hashes>>
           ELSE LET id == Head(found.user)
                IN  IF ~ \E u \in users : u.id = id THEN
                        /\ authReply' = Reply("password", 404, id, NoToken, "kept")
                        /\ UNCHANGED <<sessions, hashes>>
                    ELSE IF ~bcryptCompare(body.currentPassword, hashes[id]) THEN
                        /\ authReply' = Reply("password", 400, id, NoToken, "kept")
                        /\ UNCHANGED <<sessions, hashes>>
                    ELSE IF bcryptCompare(body.newPassword, hashes[id]) THEN
                        /\ authReply' = Reply("password", 400, id, NoToken, "kept")
                        /\ UNCHANGED <<sessions, hashes>>
                    ELSE
                        /\ hashes' = [hashes EXCEPT ![id] = bcryptHash(body.newPassword)]
                        /\ sessions' = deleteOtherSessions(sessions, id, token)
                        /\ authReply' = Reply("password", 200, id, NoToken, "kept")
    /\ UNCHANGED tokensIssued
    /\ authFrame

\* time passes on the server: new Date() of getCurrentUser and createSession
Tick ==
    /\ clock < ClockStart + MaxTicks * SESSION_TTL
    /\ clock' = clock + SESSION_TTL
    /\ UNCHANGED <<authStatus, currentUser, step, shippingDetails, selectedPayment,
                   form, cart, route, trackId, emitted, flights, users, sessionUser,
                   storedOrders, storedProfiles, localSession, remoteOrders>>
    /\ UNCHANGED trackVars
    /\ UNCHANGED authVars

(***************************************************************************)
(* Order API: POST /api/orders, GET /api/orders/[orderNumber], and the     *)
(* serializer.                                                             *)
(***************************************************************************)
serializeOrderWithoutHistory(row) ==
    [id |-> row.orderNumber,
     placedOn |-> row.placedOn,
     totalAmount |-> row.totalAmount,
     itemsCount |-> row.itemsCount,
     status |-> row.status,
     paymentMethod |-> row.paymentMethod,
     estimatedDelivery |-> row.estimatedDelivery,
     notes |-> row.notes,
     shippingAddress |->
        [name |-> row.shippingName,
         phone |-> row.shippingPhone,
         addressLine1 |-> row.shippingAddress1,
         addressLine2 |-> row.shippingAddress2,
         city |-> row.shippingCity,
         postalCode |-> row.shippingPostal],
     statusHistory |-> <<>>]

\* serializeOrder(row)
serializeOrder(row) ==
    [id |-> row.orderNumber,
     placedOn |-> row.placedOn,
     totalAmount |-> row.totalAmount,
     itemsCount |-> row.itemsCount,
     status |-> row.status,
     paymentMethod |-> row.paymentMethod,
     estimatedDelivery |-> row.estimatedDelivery,
     notes |-> row.notes,
     shippingAddress |->
        [name |-> row.shippingName,
         phone |-> row.shippingPhone,
         addressLine1 |-> row.shippingAddress1,
         addressLine2 |-> row.shippingAddress2,
         city |-> row.shippingCity,
         postalCode |-> row.shippingPostal],
     statusHistory |-> row.statusHistory]

\* timelineStepSchema: id and title are non-empty; the description, a fixed
\* non-empty text per step, is not carried in the step records
timelineStepSchema(st) == Len(st.id) >= 1 /\ Len(st.title) >= 1

shippingSchema(a) ==
    /\ Len(a.name) >= 1
    /\ Len(a.phone) >= 1
    /\ Len(a.addressLine1) >= 1
    /\ Len(a.city) >= 1
    /\ Len(a.postalCode) >= 1

\* createOrderSchema.safeParse(body).success
createOrderSchema(body) ==
    /\ Len(body.orderNumber) >= 1
    /\ body.totalAmount >= 0
    /\ body.itemsCount >= 0
    /\ Len(body.status) >= 1
    /\ Len(body.paymentMethod) >= 1
    /\ (body.notes = Null \/ Len(body.notes) <= 1000)
    /\ shippingSchema(body.shippingAddress)
    /\ Len(body.statusHistory) >= 1
    /\ \A k \in 1..Len(body.statusHistory) : timelineStepSchema(body.statusHistory[k])

OrderRowSwapsCounts(payload, userId, now) ==
    [orderNumber |-> payload.orderNumber,
     userId |-> userId,
     placedOn |-> IF payload.placedOn /= NoDate THEN payload.placedOn ELSE now,
     totalAmount |-> payload.itemsCount,
     itemsCount |-> payload.totalAmount,
     status |-> payload.status,
     paymentMethod |-> payload.paymentMethod,
     estimatedDelivery |-> payload.estimatedDelivery,
     notes |-> payload.notes,
     shippingName |-> payload.shippingAddress.name,
     shippingPhone |-> payload.shippingAddress.phone,
     shippingAddress1 |-> payload.shippingAddress.addressLine1,
     shippingAddress2 |-> payload.shippingAddress.addressLine2,
     shippingCity |-> payload.shippingAddress.city,
     shippingPostal |-> payload.shippingAddress.postalCode,
     statusHistory |-> payload.statusHistory]

\* the row prisma.order.create is given (orders/route.ts 53-71)
OrderRow(payload, userId, now) ==
    [orderNumber |-> payload.orderNumber,
     userId |-> userId,
     placedOn |-> IF payload.placedOn /= NoDate THEN payload.placedOn ELSE now,
     totalAmount |-> payload.totalAmount,
     itemsCount |-> payload.itemsCount,
     status |-> payload.status,
     paymentMethod |-> payload.paymentMethod,
     estimatedDelivery |-> payload.estimatedDelivery,
     notes |-> payload.notes,
     shippingName |-> payload.shippingAddress.name,
     shippingPhone |-> payload.shippingAddress.phone,
     shippingAddress1 |-> payload.shippingAddress.addressLine1,
     shippingAddress2 |-> payload.shippingAddress.addressLine2,
     shippingCity |-> payload.shippingAddress.city,
     shippingPostal |-> payload.shippingAddress.postalCode,
     statusHistory |-> payload.statusHistory]

\* a request body an API client may post
PayloadOf(order) ==
    [orderNumber |-> order.id, placedOn |-> order.placedOn,
     totalAmount |-> order.totalAmount, itemsCount |-> order.itemsCount,
     status |-> order.status, paymentMethod |-> order.paymentMethod,
     estimatedDelivery |-> order.estimatedDelivery, notes |-> order.notes,
     shippingAddress |-> order.shippingAddress, statusHistory |-> order.statusHistory]

ApiPayloads ==
    { PayloadOf([sampleOrders[2] EXCEPT !.id = generateOrderId(0), !.totalAmount = 99]),
      PayloadOf([sampleOrders[2] EXCEPT !.id = generateOrderId(0), !.statusHistory = <<>>]) }

\* POST /api/orders: 400 for an invalid body, 500 when create throws on the
\* unique order number, else the row is stored.  The order table is read only by
\* the tracking page's fetches, so posts are interleaved with those: a post made
\* earlier behaves as one made just after the tracking page mounts.
ApiCreateOrder(payload) ==
    /\ tStage /= "off"
    /\ createOrderSchema(payload)
    /\ ~ \E r \in remoteOrders : r.orderNumber = payload.orderNumber
    /\ remoteOrders' = remoteOrders \cup
          {OrderRow(payload, IF sessionUser = None THEN 0 ELSE Head(sessionUser).id, clock)}
    /\ UNCHANGED <<authStatus, currentUser, step, shippingDetails, selectedPayment,
                   form, cart, route, trackId, emitted, flights, users, sessionUser,
                   storedOrders, storedProfiles, localSession, clock>>
    /\ UNCHANGED trackVars
    /\ UNCHANGED authVars

\* GET /api/orders/[orderNumber]: prisma.order.findUnique on the exact number
ApiGetOrder(orderNumber) ==
    IF \E r \in remoteOrders : r.orderNumber = orderNumber
    THEN Some(serializeOrder(CHOOSE r \in remoteOrders : r.orderNumber = orderNumber))
    ELSE None

(***************************************************************************)
(* Order tracking page (order-tracking/page.tsx 107-196).                  *)
(***************************************************************************)
IsSpace(c) == c \in {" "}

\* String.prototype.trim
RECURSIVE Trim(_)
Trim(s) ==
    IF s = <<>> THEN s
    ELSE IF IsSpace(Head(s)) THEN Trim(Tail(s))
    ELSE IF IsSpace(s[Len(s)]) THEN Trim(SubSeq(s, 1, Len(s) - 1))
    ELSE s

\* getStoredOrders()
getStoredOrders == storedOrders

\* handleLookup(id) up to its await, run against the orders it closed over
HandleLookup(orders, id) ==
    LET trimmed == Trim(id)
        nextOrder == FindOrder(orders, trimmed)
    IN  IF Len(trimmed) = 0 THEN
            /\ tSelected' = None
            /\ tError' = "Enter a valid order ID to view its status."
            /\ UNCHANGED tPending
        ELSE IF nextOrder = None THEN
            /\ BagCardinality(tPending) < MaxPending
            /\ tPending' = With(tPending, trimmed)
            /\ UNCHANGED <<tSelected, tError>>
        ELSE
            /\ tError' = "none"
            /\ tSelected' = nextOrder
            /\ UNCHANGED tPending

trackFrame ==
    /\ UNCHANGED checkoutVars
    /\ UNCHANGED <<emitted, users, sessionUser, remoteOrders>>
    /\ UNCHANGED authVars

\* the two mount effects, which run in one commit: load the stored orders, and
\* look the orderId parameter up with the handleLookup of the first render
TrackMount ==
    /\ route = "tracking"
    /\ tStage = "off"
    /\ tOrders' = mergeOrders(sampleOrders, getStoredOrders)
    /\ IF trackId /= <<>> THEN HandleLookup(tOrders, trackId)
       ELSE UNCHANGED <<tSelected, tError, tPending>>
    /\ tStage' = "effects"
    /\ trackFrame

\* orders changed, so handleLookup is a new callback and the lookup effect reruns
TrackRelookup ==
    /\ route = "tracking"
    /\ tStage = "effects"
    /\ IF trackId /= <<>> THEN HandleLookup(tOrders, trackId)
       ELSE UNCHANGED <<tSelected, tError, tPending>>
    /\ tStage' = "idle"
    /\ UNCHANGED tOrders
    /\ trackFrame

\* the remote fetch of a lookup answers: 200 with the order, or 404
TrackFetchAnswered(id) ==
    /\ BagIn(id, tPending)
    /\ LET found == ApiGetOrder(id)
       IN  IF found = None THEN
               /\ tSelected' = None
               /\ tError' = "We could not find any order with the ID"
               /\ UNCHANGED <<tOrders, tStage>>
           ELSE
               /\ tError' = "none"
               /\ tOrders' = mergeOrders(tOrders, <<Head(found)>>)
               /\ tSelected' = found
               /\ tStage' = "effects"
    /\ tPending' = Without(tPending, id)
    /\ trackFrame

\* the remote fetch throws, or answers with an error other than 404
TrackFetchFailed(id) ==
    /\ BagIn(id, tPending)
    /\ tSelected' = None
    /\ tError' = "We couldn't check our records right now. Please try again."
    /\ tPending' = Without(tPending, id)
    /\ UNCHANGED <<tOrders, tStage>>
    /\ trackFrame

\* orders.slice(0, 3)
recentOrders == SubSeq(tOrders, 1, IF Len(tOrders) < 3 THEN Len(tOrders) ELSE 3)

\* the lookup form is submitted with the typed id
TrackSubmit(id) ==
    /\ route = "tracking"
    /\ tStage = "idle"
    /\ HandleLookup(tOrders, id)
    /\ UNCHANGED <<tOrders, tStage>>
    /\ trackFrame

\* a button of the recent-orders list
TrackRecent(k) ==
    /\ route = "tracking"
    /\ tStage = "idle"
    /\ k \in 1..Len(recentOrders)
    /\ HandleLookup(tOrders, recentOrders[k].id)
    /\ UNCHANGED <<tOrders, tStage>>
    /\ trackFrame

(***************************************************************************)
(* The storefront.                                                         *)
(***************************************************************************)
Next ==
    \/ FetchCurrentUserOk
    \/ FetchCurrentUserNotOk
    \/ FetchCurrentUserThrows
    \/ \E values \in FormInputs \cup {form} : SubmitValid(values)
    \/ \E values \in FormInputs \cup {form} : SubmitInvalid(values)
    \/ Edit
    \/ \E method \in PaymentInputs : SelectPayment(method)
    \/ ConfirmOrder
    \/ \E f \in BagToSet(flights) : SignupCheck(f)
    \/ \E f \in BagToSet(flights) : SignupCreate(f)
    \/ \E f \in BagToSet(flights) : SignupRejected(f)
    \/ \E f \in BagToSet(flights) : SignupThrows(f)
    \/ \E f \in BagToSet(flights) : SignupAccepted(f)
    \/ \E payload \in ApiPayloads : ApiCreateOrder(payload)
    \/ TrackMount
    \/ TrackRelookup
    \/ \E id \in BagToSet(tPending) : TrackFetchAnswered(id)
    \/ \E id \in BagToSet(tPending) : TrackFetchFailed(id)

Spec == Init /\ [][Next]_vars

(***************************************************************************)
(* The storefront with the progress its own code guarantees: a mounted     *)
(* tracking page runs its effects, and the signup route answers a request  *)
(* it has received.  When GET /api/auth/me is answered is up to the        *)
(* network and the server: fetchCurrentUser awaits it without a timer, so  *)
(* nothing is assumed about it.                                             *)
(***************************************************************************)
SpecLive ==
    /\ Init
    /\ [][Next]_vars
    /\ WF_vars(TrackMount)
    /\ WF_vars(TrackRelookup)
    /\ WF_vars(\E f \in BagToSet(flights) : SignupCheck(f))
    /\ WF_vars(\E f \in BagToSet(flights) : SignupCreate(f))

(***************************************************************************)
(* Pricing specification: an authenticated customer at the payment step,   *)
(* with any cart of the bounded price domain, confirms the order.          *)
(***************************************************************************)
PriceItems ==
    { Item(price, percentage, amount, quantity) :
        price \in {10, 100}, percentage \in {0, 5, 20}, amount \in {0, 5, 200},
        quantity \in {1, 2} }

RECURSIVE SeqsUpTo(_, _)
SeqsUpTo(set, n) ==
    IF n = 0 THEN {<<>>}
    ELSE LET shorter == SeqsUpTo(set, n - 1)
         IN  shorter \cup {Append(seq, e) : seq \in shorter, e \in set}

InitPrice ==
    /\ authStatus = "authenticated"
    /\ currentUser = Some(UserN)
    /\ step = "payment"
    /\ shippingDetails = Some([GoodForm(EmailN) EXCEPT !.password = "",
                                                       !.confirmPassword = ""])
    /\ selectedPayment = "bkash"
    /\ form = Head(shippingDetails)
    /\ cart \in SeqsUpTo(PriceItems, MaxCartLen)
    /\ route = "checkout"
    /\ trackId = <<>>
    /\ emitted = Quiet
    /\ flights = EmptyBag
    /\ users = {UserN}
    /\ sessionUser = Some(UserN)
    /\ storedOrders = <<>>
    /\ storedProfiles = setStoredProfile([id \in {} |-> None], UserN.id,
                                         ProfileOf(Head(shippingDetails), 100000))
    /\ localSession = Some(SessionRecord(UserN))
    /\ remoteOrders = {}
    /\ clock = 100000
    /\ tStage = "off"
    /\ tOrders = sampleOrders
    /\ tSelected = None
    /\ tError = "none"
    /\ tPending = EmptyBag
    /\ sessions = IF sessionUser = None THEN {}
                  ELSE {createSession(1, Head(sessionUser).id, clock)}
    /\ hashes = (UserN.id :> bcryptHash("secret1"))
    /\ tokensIssued = Cardinality(sessions)
    /\ authReply = NoReply

NextPrice == ConfirmOrder

SpecPrice == InitPrice /\ [][NextPrice]_vars

(***************************************************************************)
(* Address form specification: actor resolution, then submits of the       *)
(* address form with any values of a domain that varies the passwords and  *)
(* the postal code, and Edit.                                               *)
(***************************************************************************)
PasswordInputs == {"", "abc", "secret", "secret1"}

PostalInputs ==
    { <<"1", "2", "0", "5">>, <<"1", "2", "3">>, <<"1", "2", "a", "5">>,
      <<"1", "2", "3", "4", "5", "6">>, <<"1", "2", "3", "4", "5", "6", "7">> }

FormDomain ==
    { [GoodForm(EmailA) EXCEPT !.password = p, !.confirmPassword = c, !.postalCode = z] :
        p \in PasswordInputs, c \in PasswordInputs, z \in PostalInputs }

NextForm ==
    \/ FetchCurrentUserOk
    \/ FetchCurrentUserNotOk
    \/ FetchCurrentUserThrows
    \/ \E values \in FormDomain \cup {form} : SubmitValid(values)
    \/ \E values \in FormDomain \cup {form} : SubmitInvalid(values)
    \/ Edit

SpecForm == Init /\ [][NextForm]_vars

(***************************************************************************)
(* Order tracking specification: the tracking page opened in a browser     *)
(* whose localStorage holds orders of earlier checkouts, with or without   *)
(* an orderId parameter; the customer looks ids up, and API clients post   *)
(* orders.                                                                 *)
(***************************************************************************)
MaxStored == 3       \* orders of earlier checkouts in localStorage

\* an order an earlier checkout built
PastOrder(draw, now) ==
    BuildOrder(GoodForm(EmailA), "bkash", <<Item(100, 20, 0, 2), Item(15, 5, 5, 1)>>,
               now, draw)

PastOrders ==
    << PastOrder(0, 99000), PastOrder(5284, 99100), PastOrder(0, 99200),
       PastOrder(7, 99300) >>

\* the elements of seq at the indices in S, in their order
RECURSIVE Pick(_, _)
Pick(seq, S) ==
    IF seq = <<>> THEN <<>>
    ELSE LET rest == Pick(SubSeq(seq, 1, Len(seq) - 1), S)
         IN  IF Len(seq) \in S THEN Append(rest, seq[Len(seq)]) ELSE rest

\* what localStorage may hold: earlier orders in the order they were appended
StoredInputs ==
    { Pick(PastOrders, S) : S \in {T \in SUBSET (1..Len(PastOrders)) :
                                       Cardinality(T) <= MaxStored} }

\* ids the customer types: a stored or posted number, its lower-case form, the
\* lower-case form of a sample number, an unknown number, a blank
LookupInputs ==
    { generateOrderId(0), ToLowerCase(generateOrderId(0)),
      ToLowerCase(sampleOrders[1].id), generateOrderId(899999), <<" ">> }

InitTrack ==
    /\ authStatus = "loading"
    /\ currentUser = None
    /\ step = "address"
    /\ shippingDetails = None
    /\ selectedPayment = ""
    /\ form = EmptyForm
    /\ cart = ClearedCart
    /\ route = "tracking"
    /\ trackId \in {<<>>, generateOrderId(0)}
    /\ emitted = Quiet
    /\ flights = EmptyBag
    /\ users = {UserN}
    /\ sessionUser = None
    /\ storedOrders \in StoredInputs
    /\ storedProfiles = [id \in {} |-> None]
    /\ localSession = None
    /\ remoteOrders = {}
    /\ clock = 100000
    /\ tStage = "off"
    /\ tOrders = sampleOrders
    /\ tSelected = None
    /\ tError = "none"
    /\ tPending = EmptyBag
    /\ sessions = IF sessionUser = None THEN {}
                  ELSE {createSession(1, Head(sessionUser).id, clock)}
    /\ hashes = (UserN.id :> bcryptHash("secret1"))
    /\ tokensIssued = Cardinality(sessions)
    /\ authReply = NoReply

NextTrack ==
    \/ TrackMount
    \/ TrackRelookup
    \/ \E id \in LookupInputs : TrackSubmit(id)
    \/ \E k \in 1..3 : TrackRecent(k)
    \/ \E id \in BagToSet(tPending) : TrackFetchAnswered(id)
    \/ \E id \in BagToSet(tPending) : TrackFetchFailed(id)
    \/ \E payload \in ApiPayloads : ApiCreateOrder(payload)

SpecTrack == InitTrack /\ [][NextTrack]_vars

(***************************************************************************)
(* Authentication specification: two accounts; clients log in, call        *)
(* GET /api/auth/me and PATCH /api/auth/password with any cookie, and      *)
(* time passes.                                                            *)
(***************************************************************************)
UserB == [id |-> 2, email |-> EmailB, fullName |-> "Bashir", phone |-> PhoneN]

LoginInputs ==
    { [email |-> EmailN, password |-> "secret1"],
      [email |-> EmailN, password |-> "secret2"],
      [email |-> EmailB, password |-> "secret1"],
      [email |-> EmailA, password |-> "secret1"],
      [email |-> EmailN, password |-> "abc"] }

PasswordBodies ==
    { [currentPassword |-> "secret1", newPassword |-> "secret2",
       confirmPassword |-> "secret2"],
      [currentPassword |-> "secret1", newPassword |-> "secret1",
       confirmPassword |-> "secret1"],
      [currentPassword |-> "wrong", newPassword |-> "secret3",
       confirmPassword |-> "secret3"],
      [currentPassword |-> "secret1", newPassword |-> "secret2",
       confirmPassword |-> "secret3"],
      [currentPassword |-> "secret1", newPassword |-> "abc",
       confirmPassword |-> "abc"] }

\* cookies a request may carry: none, an issued token, one never issued
RequestTokens == 0..(MaxTokens + 1)

InitAuth ==
    /\ authStatus = "loading"
    /\ currentUser = None
    /\ step = "address"
    /\ shippingDetails = None
    /\ selectedPayment = ""
    /\ form = EmptyForm
    /\ cart = ClearedCart
    /\ route = "checkout"
    /\ trackId = <<>>
    /\ emitted = Quiet
    /\ flights = EmptyBag
    /\ users = {UserN, UserB}
    /\ sessionUser = None
    /\ storedOrders = <<>>
    /\ storedProfiles = [id \in {} |-> None]
    /\ localSession = None
    /\ remoteOrders = {}
    /\ clock = ClockStart
    /\ tStage = "off"
    /\ tOrders = sampleOrders
    /\ tSelected = None
    /\ tError = "none"
    /\ tPending = EmptyBag
    /\ sessions = {}
    /\ hashes = (UserN.id :> bcryptHash("secret1")) @@ (UserB.id :> bcryptHash("secret1"))
    /\ tokensIssued = 0
    /\ authReply = NoReply

NextAuth ==
    \/ \E body \in LoginInputs : Login(body)
    \/ \E token \in RequestTokens : GetMe(token)
    \/ \E token \in RequestTokens, body \in PasswordBodies : ChangePassword(token, body)
    \/ Tick

SpecAuth == InitAuth /\ [][NextAuth]_vars

(***************************************************************************)
(* Order API specification: API clients post orders, valid and invalid,    *)
(* with fresh and with taken numbers, and the tracking page of a browser   *)
(* without stored orders fetches numbers from the API.                     *)
(***************************************************************************)
ApiDomain ==
    { PayloadOf([sampleOrders[2] EXCEPT !.id = generateOrderId(0), !.totalAmount = 99]),
      PayloadOf([sampleOrders[2] EXCEPT !.id = generateOrderId(0), !.totalAmount = 55,
                                        !.status = "shipped"]),
      PayloadOf(PastOrder(7, 99300)),
      PayloadOf([PastOrder(8, 99400) EXCEPT !.placedOn = NoDate, !.notes = Null,
                                            !.estimatedDelivery = NoDate,
                                            !.shippingAddress.addressLine2 = Null]),
      PayloadOf([sampleOrders[2] EXCEPT !.id = generateOrderId(9), !.statusHistory = <<>>]),
      PayloadOf([sampleOrders[2] EXCEPT !.id = generateOrderId(9), !.totalAmount = 0 - 1]),
      PayloadOf([sampleOrders[2] EXCEPT !.id = <<>>]) }

\* numbers the tracking page asks the API for: posted ones, the lower-case
\* form of one, and one that only invalid bodies carry
ApiLookups ==
    { generateOrderId(0), generateOrderId(7), ToLowerCase(generateOrderId(7)),
      generateOrderId(9) }

InitApi ==
    /\ authStatus = "loading"
    /\ currentUser = None
    /\ step = "address"
    /\ shippingDetails = None
    /\ selectedPayment = ""
    /\ form = EmptyForm
    /\ cart = ClearedCart
    /\ route = "tracking"
    /\ trackId \in {<<>>, generateOrderId(7)}
    /\ emitted = Quiet
    /\ flights = EmptyBag
    /\ users = {UserN}
    /\ sessionUser \in {None, Some(UserN)}
    /\ storedOrders = <<>>
    /\ storedProfiles = [id \in {} |-> None]
    /\ localSession = None
    /\ remoteOrders = {}
    /\ clock = ClockStart
    /\ tStage = "off"
    /\ tOrders = sampleOrders
    /\ tSelected = None
    /\ tError = "none"
    /\ tPending = EmptyBag
    /\ sessions = IF sessionUser = None THEN {}
                  ELSE {createSession(1, Head(sessionUser).id, clock)}
    /\ hashes = (UserN.id :> bcryptHash("secret1"))
    /\ tokensIssued = Cardinality(sessions)
    /\ authReply = NoReply

NextApi ==
    \/ \E payload \in ApiDomain : ApiCreateOrder(payload)
    \/ TrackMount
    \/ TrackRelookup
    \/ \E id \in ApiLookups : TrackSubmit(id)
    \/ \E id \in BagToSet(tPending) : TrackFetchAnswered(id)
    \/ \E id \in BagToSet(tPending) : TrackFetchFailed(id)

SpecApi == InitApi /\ [][NextApi]_vars

(***************************************************************************)
(* Prefill specification: the checkout page opened in a browser whose      *)
(* localStorage may hold profiles saved by earlier visits, then the        *)
(* address form.                                                           *)
(***************************************************************************)
PhoneM == <<"0", "1", "9", "1", "2", "3", "4", "5", "6", "7", "8">>

\* a profile saved for the existing account, with every field filled
SavedProfile ==
    ProfileOf([GoodForm(EmailN) EXCEPT !.fullName = "Nadia Rahman", !.phone = PhoneM,
                  !.city = "Sylhet", !.postalCode = <<"3", "1", "0", "0">>,
                  !.addressLine1 = "Road 5", !.apartment = "2A", !.roadNo = "7",
                  !.additionalInfo = "Ring the bell"], 90000)

\* a profile saved without its optional fields
SavedProfileBare ==
    [SavedProfile EXCEPT !.data.apartment = Null, !.data.roadNo = Null,
                         !.data.additionalInfo = Null]

\* a profile saved for another account
SavedProfileOther == ProfileOf(GoodForm(EmailB), 90000)

ProfileInputs ==
    { [id \in {} |-> None],
      (UserN.id :> Some(SavedProfile)),
      (UserN.id :> Some(SavedProfileBare)),
      (2 :> Some(SavedProfileOther)),
      (UserN.id :> Some(SavedProfile)) @@ (2 :> Some(SavedProfileOther)) }

InitPrefill ==
    /\ authStatus = "loading"
    /\ currentUser = None
    /\ step = "address"
    /\ shippingDetails = None
    /\ selectedPayment = ""
    /\ form = EmptyForm
    /\ cart \in CartInputs
    /\ route = "checkout"
    /\ trackId = <<>>
    /\ emitted = Quiet
    /\ flights = EmptyBag
    /\ users = {UserN}
    /\ sessionUser \in {None, Some(UserN)}
    /\ storedOrders = <<>>
    /\ storedProfiles \in ProfileInputs
    /\ localSession = None
    /\ remoteOrders = {}
    /\ clock = ClockStart
    /\ tStage = "off"
    /\ tOrders = sampleOrders
    /\ tSelected = None
    /\ tError = "none"
    /\ tPending = EmptyBag
    /\ sessions = IF sessionUser = None THEN {}
                  ELSE {createSession(1, Head(sessionUser).id, clock)}
    /\ hashes = (UserN.id :> bcryptHash("secret1"))
    /\ tokensIssued = Cardinality(sessions)
    /\ authReply = NoReply

NextPrefill ==
    \/ FetchCurrentUserOk
    \/ FetchCurrentUserNotOk
    \/ FetchCurrentUserThrows
    \/ \E values \in FormInputs \cup {form} : SubmitValid(values)
    \/ \E values \in FormInputs \cup {form} : SubmitInvalid(values)
    \/ Edit

SpecPrefill == InitPrefill /\ [][NextPrefill]_vars

(***************************************************************************)
(* Checkout specification: the checkout page and the signup route alone,   *)
(* with address forms that vary the postal code and the letter case of     *)
(* the email address.                                                      *)
(***************************************************************************)
EmailAUpper == <<"A", "@", "x", ".", "i", "o">>

EmailNUpper == <<"N", "@", "x", ".", "i", "o">>

WideForms ==
    { [GoodForm(EmailA) EXCEPT !.postalCode = z] : z \in PostalInputs }
       \cup { GoodForm(EmailAUpper), GoodForm(EmailNUpper) }

NextWide ==
    \/ FetchCurrentUserOk
    \/ FetchCurrentUserNotOk
    \/ FetchCurrentUserThrows
    \/ \E values \in WideForms \cup {form} : SubmitValid(values)
    \/ \E values \in WideForms \cup {form} : SubmitInvalid(values)
    \/ Edit
    \/ \E method \in PaymentInputs : SelectPayment(method)
    \/ ConfirmOrder
    \/ \E f \in BagToSet(flights) : SignupCheck(f)
    \/ \E f \in BagToSet(flights) : SignupCreate(f)
    \/ \E f \in BagToSet(flights) : SignupRejected(f)
    \/ \E f \in BagToSet(flights) : SignupThrows(f)
    \/ \E f \in BagToSet(flights) : SignupAccepted(f)

SpecWide == Init /\ [][NextWide]_vars

(***************************************************************************)
(* Properties.                                                             *)
(***************************************************************************)
\* the three guards of the confirmation, as the design states them
GuardsHold == shippingDetails /= None /\ selectedPayment /= "" /\ Len(cart) > 0

\* a step of the confirmation handler that starts or finishes an order
NothingPlaced ==
    /\ storedOrders' = storedOrders
    /\ cart' = cart
    /\ flights' = flights
    /\ route' /= "tracking"

\* C1: a confirmation with any of the three guards violated (no shipping
\* snapshot, no payment method, empty cart) stores no order, does not clear
\* the cart, sends no signup request and does not redirect to tracking; and
\* every confirmation awaiting its signup passed the guards when clicked.
C1_GuardedConfirmation ==
    /\ [](\A f \in BagToSet(flights) : f.pay /= "" /\ Len(f.items) > 0)
    /\ [][(ConfirmOrder /\ ~GuardsHold) => NothingPlaced]_vars

\* C1 witness: a confirmation was refused for want of a payment method, with
\* the snapshot present and items in the cart, and nothing was placed
C1_Witness ==
    /\ emitted.toast = "Select a payment method to continue."
    /\ shippingDetails /= None
    /\ Len(cart) > 0
    /\ storedOrders = <<>>
    /\ route = "checkout"

NoMutation ==
    /\ UNCHANGED <<authStatus, currentUser, step, shippingDetails, selectedPayment,
                   form, cart, flights, users, storedOrders, storedProfiles,
                   localSession, remoteOrders>>

\* C2 (as claimed): a confirmation with an empty cart always redirects to the
\* cart view with the empty-cart error, whatever else the checkout state is,
\* and mutates nothing
C2_EmptyCartAlwaysRedirects ==
    [][(ConfirmOrder /\ Len(cart) = 0)
        => (route' = "cart" /\ emitted'.toast = "Your cart is empty." /\ NoMutation)]_vars

\* C2 (amended): a confirmation with an empty cart stores no order and mutates
\* nothing; with a payment method selected it redirects to the cart view with
\* the empty-cart error, and with none selected it stays on the checkout page
\* with the payment-method error
C2_EmptyCartRejected ==
    [][(ConfirmOrder /\ Len(cart) = 0)
        => /\ NoMutation
           /\ IF selectedPayment /= ""
              THEN route' = "cart" /\ emitted'.toast = "Your cart is empty."
              ELSE route' = route
                   /\ emitted'.toast = "Select a payment method to continue."]_vars

\* C2 witness: an empty cart was confirmed with a payment method selected and
\* the customer was sent to the cart view
C2_Witness ==
    /\ emitted.toast = "Your cart is empty."
    /\ route = "cart"
    /\ Len(cart) = 0
    /\ selectedPayment /= ""
    /\ storedOrders = <<>>

\* the order store the tracking page serves locally
LocalOrderStore == sampleOrders \o storedOrders

\* C3: no two orders of the store (sample orders and persisted orders) share
\* an order number
C3_UniqueOrderNumbers ==
    \A i, j \in 1..Len(LocalOrderStore) :
        i /= j => LocalOrderStore[i].id /= LocalOrderStore[j].id

\* C4: once the tracking page opened for a stored order has run its mount
\* effects, its rerun lookup and every remote answer, the selected order is
\* the stored record with that number and no error is shown
C4_TrackingShowsCreatedOrder ==
    (/\ route = "tracking"
     /\ tStage = "idle"
     /\ tPending = EmptyBag
     /\ \E k \in 1..Len(storedOrders) : storedOrders[k].id = trackId)
    => /\ tError = "none"
       /\ tSelected /= None
       /\ \E k \in 1..Len(storedOrders) :
             storedOrders[k].id = trackId /\ storedOrders[k] = Head(tSelected)

\* C5: when persisting the order fails, the confirmation is aborted: the cart
\* is intact, no success is reported and there is no redirect to tracking
C5_PersistFailureAborts ==
    emitted.log = "Failed to persist order"
    => (cart /= ClearedCart /\ emitted.toast /= "Order confirmed" /\ route /= "tracking")

\* C6: the cart is cleared only by a step that stores an order
C6_ClearedOnlyWithStoredOrder ==
    [][(cart /= ClearedCart /\ cart' = ClearedCart)
        => Len(storedOrders') = Len(storedOrders) + 1]_vars

\* finalUnitPrice as the design states it: the nearest integer to
\* price - price * percentage / 100 (ties upwards) when percentage > 0, else
\* price - amount floored at zero when amount > 0, else the price
DesignFinalUnitPrice(item) ==
    LET p == item.price
        pct == item.discount.percentage
        amt == item.discount.amount
        hundredths == 100 * p - p * pct
    IN  IF pct > 0
        THEN CHOOSE v \in (hundredths \div 100 - 1)..(hundredths \div 100 + 1) :
                100 * v - 50 <= hundredths /\ hundredths < 100 * v + 50
        ELSE IF amt > 0 THEN (IF p - amt > 0 THEN p - amt ELSE 0)
        ELSE p

RECURSIVE DesignTotal(_)
DesignTotal(items) ==
    IF items = <<>> THEN 0
    ELSE DesignFinalUnitPrice(Head(items)) * Head(items).quantity
         + DesignTotal(Tail(items))

\* C7: the order a confirmation stores for a non-empty cart has totalAmount
\* equal to the sum of finalUnitPrice(item) * quantity over the cart, the
\* percentage taking precedence over the flat amount
C7_TotalAmount ==
    [][(ConfirmOrder /\ Len(storedOrders') = Len(storedOrders) + 1)
        => storedOrders'[Len(storedOrders')].totalAmount = DesignTotal(cart)]_vars

\* C7 witness: the example of the design, price 100 at 20 percent, quantity 2,
\* was ordered for 160
C7_Witness ==
    \E k \in 1..Len(storedOrders) :
        storedOrders[k].totalAmount = 160 /\ storedOrders[k].itemsCount = 2

\* C8: the step that handles a rejected account creation stores no order,
\* leaves the cart, the shipping snapshot (password included) and the payment
\* selection as they were, and puts the step at address
C8_SignupRejectionAborts ==
    [][(\E f \in BagToSet(flights) :
            /\ f.pc = "responded"
            /\ f.status /= 201
            /\ flights' = Without(flights, f))
        => /\ UNCHANGED <<storedOrders, cart, shippingDetails, selectedPayment>>
           /\ step' = "address"
           /\ route' = route]_vars

\* C8 witness: a guest's account creation was rejected; the snapshot with its
\* password, the payment selection and the cart are still there
C8_Witness ==
    /\ emitted = Toast("We couldn't create your account.")
    /\ authStatus = "guest"
    /\ step = "address"
    /\ shippingDetails /= None
    /\ Head(shippingDetails).password = "secret1"
    /\ selectedPayment /= ""
    /\ Len(cart) > 0
    /\ storedOrders = <<>>

\* C9: the checkout session's cart yields at most one order
C9_AtMostOneOrderPerCart == Len(storedOrders) <= 1

\* C10: at most one confirmation is outstanding at any time
C10_SingleOutstandingConfirmation == BagCardinality(flights) <= 1

\* the validation the design prescribes for the actor: the base address rules,
\* and for a guest a password and a confirmation of at least 6 characters
\* that are equal
DesignSchema(status, v) ==
    /\ baseCheckoutSchema(v)
    /\ status /= "authenticated"
        => (Len(v.password) >= 6 /\ Len(v.confirmPassword) >= 6
            /\ v.password = v.confirmPassword)

\* C11: the step goes from address to payment only in a step that captures, as
\* the shipping snapshot, submitted form values that pass the schema of the
\* actor; every valid submit makes that transition; and a submit that fails
\* validation leaves the step at address and the snapshot unchanged.
C11_PaymentOnlyByValidSubmit ==
    /\ [][(step = "address" /\ step' = "payment")
            => /\ shippingDetails' /= None
               /\ form' = Head(shippingDetails')
               /\ DesignSchema(authStatus, Head(shippingDetails'))]_vars
    /\ [][(\E v \in FormInputs \cup {form} : SubmitValid(v))
            => (step = "address" /\ step' = "payment")]_vars
    /\ [][(\E v \in FormInputs \cup {form} : SubmitInvalid(v))
            => (step' = "address" /\ shippingDetails' = shippingDetails)]_vars

\* C11 witness: a guest's valid submit put the step at payment with the
\* submitted values as the snapshot
C11_Witness ==
    /\ authStatus = "guest"
    /\ step = "payment"
    /\ shippingDetails = Some(GoodForm(EmailA))
    /\ form = GoodForm(EmailA)
    /\ route = "checkout"

\* C12: Edit puts the step at address and leaves the snapshot, the payment
\* selection, the cart, the actor and the form values unchanged; a captured
\* snapshot is never reset to null; and the snapshot changes only by a valid
\* submit or by the success of the account creation, so no error path (a
\* refused confirmation, a rejected or failed signup, an invalid submit)
\* touches it.
C12_EditKeepsSnapshot ==
    /\ [][Edit => /\ step = "payment"
                  /\ step' = "address"
                  /\ UNCHANGED <<shippingDetails, selectedPayment, cart, authStatus,
                                 currentUser, form>>]_vars
    /\ [][shippingDetails /= None => shippingDetails' /= None]_vars
    /\ [][shippingDetails' /= shippingDetails
            => \/ \E v \in FormInputs \cup {form} : SubmitValid(v)
               \/ \E f \in BagToSet(flights) : SignupAccepted(f)]_vars

\* C12 witness: after Edit the address step is shown again with the snapshot,
\* the payment selection and the cart still there
C12_Witness ==
    /\ step = "address"
    /\ emitted = Quiet
    /\ shippingDetails = Some(GoodForm(EmailA))
    /\ form = GoodForm(EmailA)
    /\ selectedPayment = "bkash"
    /\ Len(cart) > 0
    /\ flights = EmptyBag

\* a step that builds an order (the only steps that advance the clock)
OrderBuilt == clock' /= clock

\* C14: a guest's click on Confirm builds no order, and with the guards passed
\* and a password present it sends the signup request; an order is built in a
\* step that either is the confirmation of an authenticated actor, which sends
\* no signup request, or consumes a signup answered 201 whose user the server
\* has created.
C14_SignupBeforeGuestOrder ==
    /\ [][(ConfirmOrder /\ authStatus = "guest")
            => /\ ~OrderBuilt
               /\ UNCHANGED <<storedOrders, cart>>
               /\ (GuardsHold /\ Head(shippingDetails).password /= "")
                     => BagCardinality(flights') = BagCardinality(flights) + 1]_vars
    /\ [][(ConfirmOrder /\ authStatus = "authenticated") => flights' = flights]_vars
    /\ [][OrderBuilt
            => \/ ConfirmOrder /\ authStatus = "authenticated" /\ flights' = flights
               \/ \E f \in BagToSet(flights) :
                     /\ f.pc = "responded"
                     /\ f.status = 201
                     /\ f.user /= None
                     /\ Head(f.user) \in users
                     /\ flights' = Without(flights, f)]_vars

\* C14 witness: an order stored for a customer who entered as a guest and whose
\* account the signup call created
C14_Witness ==
    /\ Len(storedOrders) = 1
    /\ currentUser /= None
    /\ Head(currentUser).id /= UserN.id
    /\ Head(currentUser) \in users
    /\ route = "tracking"

\* the profile keys a step writes
ChangedKeys ==
    {id \in DOMAIN storedProfiles' :
        id \notin DOMAIN storedProfiles \/ storedProfiles'[id] /= storedProfiles[id]}

\* C19: a step that writes the profile store writes exactly one record and
\* removes none; the record is keyed by the id of the authenticated current
\* user (submit or confirm), or by the id of the user a signup answered 201
\* returned, who then is the current user; so a guest writes none before the
\* account creation has succeeded.
C19_ProfileKeyedByActor ==
    [][storedProfiles' /= storedProfiles
        => /\ DOMAIN storedProfiles \subseteq DOMAIN storedProfiles'
           /\ currentUser' /= None
           /\ ChangedKeys = {Head(currentUser').id}
           /\ \/ /\ authStatus = "authenticated"
                 /\ currentUser' = currentUser
                 /\ flights' = flights
              \/ \E f \in BagToSet(flights) :
                    /\ f.status = 201
                    /\ flights' = Without(flights, f)
                    /\ f.user = currentUser'
                    /\ Head(f.user) \in users]_vars

\* C19 witness: two accounts created during checkout each have their own
\* profile record, with the address each was confirmed with
C19_Witness ==
    /\ DOMAIN storedProfiles = {2, 3}
    /\ Head(storedProfiles[2]).data.email /= Head(storedProfiles[3]).data.email
    /\ currentUser /= None
    /\ Head(currentUser).id \in {2, 3}

\* C20: every order the checkout stored has status processing, which is the
\* id of its second step, and a history of exactly the five steps placed,
\* processing, shipped, out-for-delivery, delivered in that order, the first
\* two complete and the other three not.
C20_InitialTimeline ==
    \A k \in 1..Len(storedOrders) :
        LET o == storedOrders[k]
            h == o.statusHistory
        IN  /\ o.status = "processing"
            /\ Len(h) = 5
            /\ o.status = h[2].id
            /\ [i \in 1..5 |-> h[i].id]
                  = <<"placed", "processing", "shipped", "out-for-delivery", "delivered">>
            /\ [i \in 1..5 |-> h[i].title]
                  = <<"Order Placed", "Processing", "Shipped", "Out for Delivery",
                      "Delivered">>
            /\ [i \in 1..5 |-> h[i].isCompleted] = <<TRUE, TRUE, FALSE, FALSE, FALSE>>

\* C20 witness: the checkout stored an order placed at the start of the session
C20_Witness ==
    /\ Len(storedOrders) >= 1
    /\ storedOrders[1].placedOn = 100000
    /\ storedOrders[1].statusHistory[1].date = 100000

\* the password rule of a guest's address form
PasswordRule(v) ==
    Len(v.password) >= 6 /\ Len(v.confirmPassword) >= 6 /\ v.password = v.confirmPassword

\* a step that sends no request to the server
NoNetworkCall == UNCHANGED <<flights, users, remoteOrders, tPending>>

\* C15: a guest's submit is accepted only with a password and a confirmation
\* of at least 6 characters that are equal; a guest's submit of values that
\* break this rule sets field errors, sends no request and leaves the step at
\* address and the snapshot unchanged.
C15_GuestPasswordRule ==
    /\ [][(authStatus = "guest" /\ step = "address" /\ step' = "payment")
            => PasswordRule(form')]_vars
    /\ [][(authStatus = "guest" /\ ~PasswordRule(form')
            /\ (SubmitValid(form') \/ SubmitInvalid(form')))
            => /\ emitted'.fieldErrors
               /\ step' = "address"
               /\ shippingDetails' = shippingDetails
               /\ NoNetworkCall]_vars

\* C15 witness: a guest submitted a 6-character password with a different
\* confirmation, got field errors and is still at the address step
C15_Witness ==
    /\ authStatus = "guest"
    /\ step = "address"
    /\ emitted.fieldErrors
    /\ form.password = "secret"
    /\ form.confirmPassword = "secret1"
    /\ PostalCodeOk(form.postalCode)
    /\ shippingDetails = None
    /\ flights = EmptyBag

\* C13: the checkout does not stay in the loading state forever: whatever
\* happens to GET /api/auth/me, no answer included, the actor is eventually
\* resolved (to guest when the call failed) and the address form is shown
C13_LoadingEnds == <>(authStatus /= "loading")

\* the positions of the local orders whose number equals the typed id up to case
LocalMatches(id) ==
    {i \in 1..Len(tOrders) : ToLowerCase(tOrders[i].id) = ToLowerCase(Trim(id))}

\* the remote orders whose number equals the requested id up to case
RemoteMatches(id) ==
    {r \in remoteOrders : ToLowerCase(r.orderNumber) = ToLowerCase(id)}

\* C16: the lookup matches order numbers without regard to case, locally and
\* remotely: a submitted id that equals a local order's number up to case
\* selects that order; a remote fetch for an id that equals a remote order's
\* number up to case selects that order, and one that matches no remote order
\* gives the not-found error.
C16_CaseInsensitiveLookup ==
    /\ [][\A id \in LookupInputs :
            (TrackSubmit(id) /\ LocalMatches(id) /= {})
            => /\ tError' = "none"
               /\ \E i \in LocalMatches(id) : tSelected' = Some(tOrders[i])]_vars
    /\ [][\A id \in BagToSet(tPending) :
            TrackFetchAnswered(id)
            => IF RemoteMatches(id) /= {}
               THEN /\ tError' = "none"
                    /\ \E r \in RemoteMatches(id) : tSelected' = Some(serializeOrder(r))
               ELSE /\ tSelected' = None
                    /\ tError' = "We could not find any order with the ID"]_vars

\* the record with the given number that comes last in a list
LastWith(list, id) ==
    list[CHOOSE i \in 1..Len(list) :
            list[i].id = id /\ \A j \in (i + 1)..Len(list) : list[j].id /= id]

\* result is the merge of base and extra as the design states it: one record
\* per number, the one seen last, in descending order of placement
MergedAsDesigned(base, extra, result) ==
    LET all == base \o extra
        ids == {all[i].id : i \in 1..Len(all)}
    IN  /\ Len(result) = Cardinality(ids)
        /\ \A id \in ids : \E i \in 1..Len(result) : result[i] = LastWith(all, id)
        /\ \A i \in 1..(Len(result) - 1) : result[i].placedOn >= result[i + 1].placedOn

\* C17: the list the mount effect sets is the merge of the sample orders and
\* the stored orders, and the list an answered fetch sets is the merge of the
\* previous list and the fetched order: one record per order number, the one
\* seen last, sorted by placedOn descending; and the recent-orders list is
\* the (up to) three most recently placed orders of the list.
C17_MergeOrders ==
    /\ [][TrackMount => MergedAsDesigned(sampleOrders, storedOrders, tOrders')]_vars
    /\ [][\A id \in BagToSet(tPending) :
            (TrackFetchAnswered(id) /\ ApiGetOrder(id) /= None)
            => MergedAsDesigned(tOrders, ApiGetOrder(id), tOrders')]_vars
    /\ [](LET shown == {recentOrders[i] : i \in 1..Len(recentOrders)}
               rest == {tOrders[j] : j \in 1..Len(tOrders)} \ shown
           IN  /\ Len(recentOrders) = IF Len(tOrders) < 3 THEN Len(tOrders) ELSE 3
               /\ Cardinality(shown) = Len(recentOrders)
               /\ shown \subseteq {tOrders[j] : j \in 1..Len(tOrders)}
               /\ \A a \in shown, b \in rest : a.placedOn >= b.placedOn)

\* C17 witness: four orders are listed; the stored order numbered like the
\* first sample order replaced it, a fetched order replaced the stored one of
\* its number, and the recent list shows three of them
C17_Witness ==
    /\ tStage /= "off"
    /\ Len(tOrders) = 4
    /\ Len(recentOrders) = 3
    /\ \E i \in 1..4 : tOrders[i] = PastOrder(5284, 99100)
    /\ \E i \in 1..4 : tOrders[i].id = generateOrderId(0) /\ tOrders[i].totalAmount = 99
    /\ \E k \in 1..Len(storedOrders) : storedOrders[k].id = generateOrderId(0)

\* C18: whenever the tracking page selects an order whose number the remote
\* store holds, the record it selects is the remote one
C18_RemotePreferred ==
    [][(tSelected' /= None /\ tSelected' /= tSelected)
        => \A r \in remoteOrders :
              r.orderNumber = Head(tSelected').id
              => tSelected' = Some(serializeOrder(r))]_vars

\* the session table holds a row with this token that has not expired
LiveSession(token) ==
    \E s \in sessions : s.token = token /\ ~(s.expiresAt < clock)

\* the session table holds a row with this token whose expiry has passed
ExpiredSession(token) ==
    \E s \in sessions : s.token = token /\ s.expiresAt < clock

\* the user a token's row belongs to
OwnerOf(token) == (CHOOSE s \in sessions : s.token = token).userId

\* C27: getCurrentUser returns a user only for a request whose cookie is the
\* token of a session row that has not expired, and then that row's user; for
\* a missing cookie, an unknown token or an expired session the request is
\* answered as unauthenticated, and the expired row is gone afterwards, so an
\* expired token never authenticates a request.
C27_OnlyLiveSessionsAuthenticate ==
    [][\A token \in RequestTokens :
          (GetMe(token) \/ \E body \in PasswordBodies : ChangePassword(token, body)) =>
             /\ (authReply'.status /= 401) <=> (token /= NoToken /\ LiveSession(token))
             /\ (authReply'.status /= 401) => authReply'.userId = OwnerOf(token)
             /\ ExpiredSession(token) => ~ \E s \in sessions' : s.token = token]_vars

\* the only token ever issued was presented after it expired and its row is gone
C27_Witness ==
    /\ tokensIssued = 1
    /\ sessions = {}
    /\ clock > ClockStart + SESSION_TTL
    /\ authReply = Reply("me", 401, 0, NoToken, "deleted")

\* a password change request that the route must refuse
ChangeRefused(token, body) ==
    \/ token = NoToken
    \/ ~LiveSession(token)
    \/ body.currentPassword = ""
    \/ Len(body.newPassword) < 6
    \/ body.newPassword /= body.confirmPassword
    \/ hashes[OwnerOf(token)] /= bcryptHash(body.currentPassword)
    \/ hashes[OwnerOf(token)] = bcryptHash(body.newPassword)

\* what a password change that is not refused does
ChangeApplied(token, body) ==
    LET id == OwnerOf(token)
    IN  /\ authReply'.status = 200
        /\ hashes' = [hashes EXCEPT ![id] = bcryptHash(body.newPassword)]
        /\ sessions' = {s \in sessions : s.userId /= id \/ s.token = token}
        /\ \E s \in sessions' : s.token = token /\ s.userId = id
                                /\ ~(s.expiresAt < clock')

\* A successful password change deletes every session of that user except the
\* one that made the request, which stays valid; a refused request changes
\* neither the password hash nor any session.
C28_RefusedChangeTouchesNothing ==
    [][\A token \in RequestTokens, body \in PasswordBodies :
          ChangePassword(token, body) =>
             IF ChangeRefused(token, body)
             THEN authReply'.status /= 200 /\ hashes' = hashes /\ sessions' = sessions
             ELSE ChangeApplied(token, body)]_vars

\* C28: a successful password change deletes every session of that user
\* except the one that made the request, which stays valid; a request that is
\* unauthenticated, fails validation, gives a wrong current password or
\* proposes the current password as the new one changes neither the password
\* hash nor any session that has not expired: the one row it may remove is the
\* expired session whose token it carried.
C28_PasswordChange ==
    [][\A token \in RequestTokens, body \in PasswordBodies :
          ChangePassword(token, body) =>
             IF ChangeRefused(token, body)
             THEN /\ authReply'.status /= 200
                  /\ hashes' = hashes
                  /\ sessions' = {s \in sessions : s.token /= token \/ ~(s.expiresAt < clock)}
             ELSE ChangeApplied(token, body)]_vars

\* the existing account changed its password from one of its two sessions:
\* the other session is gone, the requesting one is kept
C28_Witness ==
    /\ clock = ClockStart
    /\ tokensIssued = 2
    /\ Cardinality(sessions) = 1
    /\ \A s \in sessions : s.userId = UserN.id
    /\ hashes[UserN.id] = bcryptHash("secret2")
    /\ authReply = Reply("password", 200, UserN.id, NoToken, "kept")

\* C22: when the account-creation request of a guest confirmation throws, the
\* step, the shipping snapshot, the payment selection and the cart are what
\* they were before, and no order is created.
C22_SignupThrowPreservesFlow ==
    [][(\E f \in BagToSet(flights) : SignupThrows(f)) =>
          /\ step' = step
          /\ shippingDetails' = shippingDetails
          /\ selectedPayment' = selectedPayment
          /\ cart' = cart
          /\ storedOrders' = storedOrders
          /\ remoteOrders' = remoteOrders
          /\ route' = route]_vars

\* C26: in every reachable state of the checkout page, the payment step has a
\* shipping snapshot: the step is entered only by a valid submit, which sets
\* the snapshot to the submitted values, and nothing sets the snapshot back
\* to null.
C26_PaymentStepHasSnapshot ==
    /\ [](step = "payment" => shippingDetails /= None)
    /\ [][step' = "payment" /\ step /= "payment" =>
             /\ \E values \in FormInputs \cup {form} : SubmitValid(values)
             /\ shippingDetails' = Some(form')]_vars
    /\ [][shippingDetails /= None => shippingDetails' /= None]_vars

\* a guest at the payment step with a payment method chosen
C26_Witness ==
    /\ route = "checkout"
    /\ authStatus = "guest"
    /\ step = "payment"
    /\ shippingDetails /= None
    /\ selectedPayment = "bkash"

\* the passwords typed into the address form
PasswordsTyped ==
    {v.password : v \in FormInputs} \cup {v.confirmPassword : v \in FormInputs}

\* a persisted record has no password field, and none of its text fields
\* holds a typed password
FreeOfPassword(rec, textFields) ==
    /\ DOMAIN rec \cap {"password", "confirmPassword"} = {}
    /\ \A k \in textFields \cap DOMAIN rec : rec[k] \notin PasswordsTyped

\* the account-creation call of this checkout has succeeded
AccountCreated == currentUser /= None /\ Head(currentUser) /= UserN

LocalSources ==
    {sampleOrders[k] : k \in 1..Len(sampleOrders)}
       \cup {storedOrders[k] : k \in 1..Len(storedOrders)}

\* a record the page holds carries the number and the timeline of a local
\* record or of a row of the order table
FromSource(order) ==
    \/ \E o \in LocalSources :
          o.id = order.id /\ o.statusHistory = order.statusHistory
    \/ \E r \in remoteOrders :
          r.orderNumber = order.id /\ r.statusHistory = order.statusHistory

\* the ids of a timeline's steps, in order
StepIds(history) == [k \in 1..Len(history) |-> history[k].id]

\* C21: no flow operation alters the timeline of an order: persisting keeps
\* the orders already stored, an API create stores the posted timeline and
\* keeps the rows already there, the serializer returns a row's timeline, and
\* every record the tracking page holds after merging and lookup carries the
\* timeline of the stored, sample or remote record it was taken from; so the
\* steps, their order and their completion stay as they were at creation.
C21_TimelinePreserved ==
    /\ [][\A k \in 1..Len(storedOrders) :
             /\ k <= Len(storedOrders')
             /\ storedOrders'[k] = storedOrders[k]]_vars
    /\ [](\A k \in 1..Len(storedOrders) :
             StepIds(storedOrders[k].statusHistory) =
                <<"placed", "processing", "shipped", "out-for-delivery", "delivered">>)
    /\ [][remoteOrders \subseteq remoteOrders']_vars
    /\ [][\A payload \in ApiPayloads :
             ApiCreateOrder(payload) =>
                \E r \in remoteOrders' \ remoteOrders :
                   /\ r.orderNumber = payload.orderNumber
                   /\ r.statusHistory = payload.statusHistory]_vars
    /\ [](\A r \in remoteOrders :
             /\ serializeOrder(r).id = r.orderNumber
             /\ serializeOrder(r).statusHistory = r.statusHistory)
    /\ [](\A k \in 1..Len(tOrders) : FromSource(tOrders[k]))
    /\ [](tSelected /= None => FromSource(Head(tSelected)))

\* an order was persisted by the checkout, an order was posted to the API,
\* and the tracking page fetched, merged and selected the posted one
C21_Witness ==
    /\ Len(storedOrders) > 0
    /\ remoteOrders /= {}
    /\ tSelected /= None
    /\ Head(tSelected).totalAmount = 99
    /\ \E k \in 1..Len(tOrders) : tOrders[k] = Head(tSelected)

\* the fields of a fetched record that C23 compares with the posted body
SameAsPayload(order, payload) ==
    /\ order.id = payload.orderNumber
    /\ order.totalAmount = payload.totalAmount
    /\ order.itemsCount = payload.itemsCount
    /\ order.status = payload.status
    /\ order.paymentMethod = payload.paymentMethod
    /\ order.shippingAddress = payload.shippingAddress
    /\ order.statusHistory = payload.statusHistory

\* C23: after POST /api/orders has created an order, GET by the same number
\* returns a record whose order number, totalAmount, itemsCount, status,
\* paymentMethod, shippingAddress and statusHistory are those of the posted
\* body, and keeps returning it; a number is found only once an order with
\* that number has been created, and the fetch of a number that is not found
\* is answered with the not-found error.
C23_CreateThenFetch ==
    /\ [][\A payload \in ApiDomain :
             ApiCreateOrder(payload) =>
                LET got == ApiGetOrder(payload.orderNumber)'
                IN  got /= None /\ SameAsPayload(Head(got), payload)]_vars
    /\ [][\A id \in ApiLookups :
             ApiGetOrder(id) /= None => ApiGetOrder(id)' = ApiGetOrder(id)]_vars
    /\ [][\A id \in ApiLookups :
             (ApiGetOrder(id) = None /\ ApiGetOrder(id)' /= None) =>
                \E payload \in ApiDomain :
                   payload.orderNumber = id /\ ApiCreateOrder(payload)]_vars
    /\ [][\A id \in ApiLookups :
             (TrackFetchAnswered(id) /\ ApiGetOrder(id) = None) =>
                /\ tSelected' = None
                /\ tError' = "We could not find any order with the ID"]_vars

\* two orders were posted and the tracking page fetched one of them
C23_Witness ==
    /\ Cardinality(remoteOrders) >= 2
    /\ tError = "none"
    /\ tSelected /= None
    /\ Head(tSelected).id = generateOrderId(0)
    /\ Head(tSelected).totalAmount \in {55, 99}

\* what a stored optional field shows as in the form
Shown(value) == IF value = Null THEN "" ELSE value

\* C24: when the actor resolves to authenticated and a stored profile exists
\* under that user's id, name, phone, city, postal code, street address,
\* apartment, road and notes of the form are those of that profile; when the
\* actor resolves to guest every field is empty, whatever profiles are stored,
\* and the stored profiles are left as they are.
C24_PrefillFromStoredProfile ==
    [][(authStatus = "loading" /\ authStatus' /= "loading") =>
          IF authStatus' = "authenticated"
          THEN LET id == Head(currentUser').id
               IN  id \in DOMAIN storedProfiles =>
                      LET d == Head(storedProfiles[id]).data
                      IN  /\ form'.fullName = d.fullName
                          /\ form'.phone = d.phone
                          /\ form'.city = d.city
                          /\ form'.postalCode = d.postalCode
                          /\ form'.addressLine1 = d.addressLine1
                          /\ form'.apartment = Shown(d.apartment)
                          /\ form'.roadNo = Shown(d.roadNo)
                          /\ form'.additionalInfo = Shown(d.additionalInfo)
          ELSE /\ form' = EmptyForm
               /\ storedProfiles' = storedProfiles]_vars

\* the existing account's saved address is in the form of the address step
C24_Witness ==
    /\ authStatus = "authenticated"
    /\ step = "address"
    /\ shippingDetails = None
    /\ UserN.id \in DOMAIN storedProfiles
    /\ form.city = "Sylhet"
    /\ form.addressLine1 = "Road 5"

\* only digits, four to six of them
FourToSixDigits(code) ==
    /\ Len(code) \in 4..6
    /\ \A k \in 1..Len(code) :
          code[k] \in {"0", "1", "2", "3", "4", "5", "6", "7", "8", "9"}

\* C25: every shipping snapshot the checkout captures, whether held by the
\* page or by a confirmation in progress, and every order it creates has a
\* postal code of four to six digits and nothing else.
C25_PostalCode ==
    /\ shippingDetails /= None => FourToSixDigits(Head(shippingDetails).postalCode)
    /\ \A f \in BagToSet(flights) : FourToSixDigits(f.sd.postalCode)
    /\ \A k \in 1..Len(storedOrders) :
          FourToSixDigits(storedOrders[k].shippingAddress.postalCode)

\* an order with a six-digit postal code was created
C25_Witness ==
    /\ shippingDetails /= None
    /\ Len(storedOrders) > 0
    /\ Len(storedOrders[1].shippingAddress.postalCode) = 6

\* some account has this address, letter case aside
EmailTaken(email) == \E u \in users : ToLowerCase(u.email) = ToLowerCase(email)

\* C29: no two user records share an email compared case-insensitively, also
\* when two signup requests for one address both pass the existence check
\* before either creates the user; a request whose address has an account
\* when the route looks it up is answered 409 and creates no user, and one
\* whose address was taken after its lookup creates no user either.
C29_UniqueEmails ==
    /\ [](\A u \in users, v \in users :
             ToLowerCase(u.email) = ToLowerCase(v.email) => u = v)
    /\ [][\A f \in BagToSet(flights) :
             (SignupCheck(f) /\ EmailTaken(f.sd.email)) =>
                /\ users' = users
                /\ BagIn([f EXCEPT !.pc = "responded", !.status = 409], flights')]_vars
    /\ [][\A f \in BagToSet(flights) :
             (SignupCreate(f) /\ EmailTaken(f.sd.email)) =>
                /\ users' = users
                /\ \E g \in BagToSet(flights') : g.pc = "responded" /\ g.status >= 400]_vars

\* two requests for one address, in different letter case, both passed the
\* existence check; the first created the account and the second was refused
C29_Witness ==
    /\ \E u \in users : u.email = EmailA
    /\ \E f \in BagToSet(flights) :
          f.pc = "responded" /\ f.status = 500 /\ f.sd.email = EmailAUpper

====
